---- MODULE Spec2Model ----
(***************************************************************************)
(* A model of plumb, a rule-driven message router.                         *)
(*                                                                         *)
(*   world.py   World: the operation scheduler (add_rsync, add_move,       *)
(*              add_shell, add_op, run) and the interpreter loop (route)   *)
(*   ast.py     the commands, the conditions and the streaming grep        *)
(*   __main__   main / route_command_line_args / route_file: the session   *)
(*                                                                         *)
(* Strings are tuples of one-character strings, so that the path and byte  *)
(* operations of the code are computed, not assumed.                       *)
(***************************************************************************)
EXTENDS Integers, Sequences, FiniteSets, TLC

(***************************************************************************)
(* Bounds of the model.                                                    *)
(***************************************************************************)
\* the number of copyto / moveto calls of one scheduler session
MaxOps == 3
\* the length of a rule program
MaxProg == 3
\* the number of routables of one session
MaxArgs == 2
\* the number of lines of an input file
MaxLines == 3

(***************************************************************************)
(* Strings and paths.                                                      *)
(***************************************************************************)
\* os.path.sep on a POSIX build
Sep == "/"

S_a == <<"a">>
S_x == <<"x">>
S_sa == <<"/", "s", "/", "a">>
S_fa == <<"/", "f", "/", "a">>
S_sdir == <<"/", "s", "/">>
S_fdir == <<"/", "f", "/">>

\* str.endswith(os.path.sep)
EndsWithSep(s) == Len(s) > 0 /\ s[Len(s)] = Sep

\* pathlib drops the trailing separators of a path (the root stays)
RECURSIVE StripTrail(_)
StripTrail(s) ==
    IF Len(s) > 1 /\ s[Len(s)] = Sep THEN StripTrail(SubSeq(s, 1, Len(s) - 1))
    ELSE s

\* the position of the last separator of s, 0 when there is none
RECURSIVE LastSep(_, _)
LastSep(s, i) ==
    IF i = 0 THEN 0 ELSE IF s[i] = Sep THEN i ELSE LastSep(s, i - 1)

\* Path(s).name : the final component of s
PathName(s) ==
    LET t == StripTrail(s)
    IN  SubSeq(t, LastSep(t, Len(t)) + 1, Len(t))

\* str(Path(d).joinpath(n)) for a relative component n
JoinPath(d, n) ==
    LET t == StripTrail(d)
    IN  IF n = <<>> THEN t
        ELSE IF t = <<>> THEN n
        ELSE IF t = <<Sep>> THEN t \o n
        ELSE t \o <<Sep>> \o n

(***************************************************************************)
(* The state.                                                              *)
(***************************************************************************)
VARIABLES
    pc,             \* the position of the session (main, route, run)
    obj,            \* World.obj: the active routable, NoObj before the first
    heap,           \* every Op object created, by identity (its index)
    ops,            \* World.ops: identities, in enqueue order
    pending_ops,    \* World.pending_ops
    rsync,          \* World.rsync: destination -> Ops, in insertion order
    move_files,     \* World.move_files
    shell_commands, \* World.shell_commands
    executed_ops,   \* run's local list of one round
    ri,             \* run's loop index inside one for-loop
    rounds,         \* the number of rounds of run's while-loop entered
    sink,           \* the lines printed by the dry run, in order
    execlog,        \* identities in the order they were marked executed
    error,          \* the exception that ended the session, "" if none
    program,        \* the rule program: the commands, in order
    argv,           \* sys.argv[1:]: the data of the routables, in order
    rules,          \* the parse of the rule text that parse_commands lowers
    argi,           \* how many elements of argv were ingested
    ci,             \* route's position in the program
    mode,           \* World.mode
    vars,           \* World.vars
    stat_cache,     \* World._stat_cache: the paths whose stat is memoized
    ran,            \* the commands run for the active routable: [ci, res]
    sites,          \* ast.greps: the GrepCondition sites of the program
    files,          \* the input files: path -> lines
    greps,          \* World.greps: site -> path -> bool, the grep cache
    reads,          \* World.reads: path -> the parked reader and scan
    handles,        \* every file object opened: [path, pos, closed]
    wcount,         \* site -> path -> the number of writes of the cache entry
    last,           \* the last Grep.check call and how it ended
    scan            \* check's locals matcher and chk while its loop is followed
                    \* line by line

schedvars == <<heap, ops, pending_ops, rsync, move_files, shell_commands>>
runvars == <<executed_ops, ri, rounds, sink, execlog>>
inputvars == <<program, argv, rules>>
routevars == <<argi, ci, mode, vars, stat_cache, ran>>
grepvars == <<sites, files, greps, reads, handles, wcount, last, scan>>
allvars == <<pc, obj, error, schedvars, runvars, inputvars, routevars, grepvars>>

\* None where a string is expected: a tuple that is no string of the model
None == <<"None">>
\* World.obj before the first routable
NoObj == [none |-> TRUE]

\* dataclass Op (provides_op is never read nor written by the code)
Op(type, args) ==
    [type |-> type, args |-> args, requires_names |-> <<>>, requires_op |-> <<>>,
     provides_names |-> <<>>, ready_ |-> FALSE, executed |-> FALSE]

Range(s) == {s[i] : i \in 1..Len(s)}
SeqsUpTo(S, n) == UNION {[1..k -> S] : k \in 0..n}

\* Op.ready with any() in place of all()
ready_mut_any(h, id) ==
    h[id].ready_ \/ \E r \in Range(h[id].requires_op) : h[r].executed
\* Op.ready : the value returned
ready(h, id) ==
    h[id].ready_ \/ \A r \in Range(h[id].requires_op) : h[r].executed

\* Op.ready : the heap after the call (the answer is cached in ready_)
ReadyCache(h, id) == [h EXCEPT ![id].ready_ = ready(h, id)]

\* the index of destination d in an ordered defaultdict, 0 when absent
DictIndex(dict, d) ==
    IF \E i \in 1..Len(dict) : dict[i].dest = d
    THEN CHOOSE i \in 1..Len(dict) : dict[i].dest = d
    ELSE 0

\* defaultdict(list)[d].append(id)
DictAppend(dict, d, id) ==
    LET i == DictIndex(dict, d)
    IN  IF i = 0 THEN Append(dict, [dest |-> d, srcs |-> <<id>>])
        ELSE [dict EXCEPT ![i].srcs = Append(@, id)]

\* any(a == b for a in newop.provides_names for b in op.requires_names)
Overlap(new, old) ==
    \E a \in Range(new.provides_names) : \E b \in Range(old.requires_names) : a = b

\* World.add_op: the first enqueued Op whose requires_names overlap the new
\* Op's provides_names, 0 when there is none
FirstOverlap(h, oplist, newid) ==
    IF \E i \in 1..Len(oplist) : Overlap(h[newid], h[oplist[i]])
    THEN oplist[CHOOSE i \in 1..Len(oplist) :
                    /\ Overlap(h[newid], h[oplist[i]])
                    /\ \A j \in 1..(i - 1) : ~Overlap(h[newid], h[oplist[j]])]
    ELSE 0

\* World.add_op on the world w = [heap, ops, pending_ops, ...]: at the first
\* overlap newop.requires_op gets the Op and `op.provides` raises
\* AttributeError (Op has no such attribute); without overlap the Op is
\* appended to ops and pending_ops
add_op(w, newid) ==
    LET hit == FirstOverlap(w.heap, w.ops, newid)
    IN  IF hit # 0
        THEN [w EXCEPT !.heap[newid].requires_op = Append(@, hit),
                       !.error = "AttributeError"]
        ELSE [w EXCEPT !.ops = Append(@, newid),
                       !.pending_ops = Append(@, newid)]

\* the world as one record, for the operators that thread it
TheWorld ==
    [heap |-> heap, ops |-> ops, pending_ops |-> pending_ops, rsync |-> rsync,
     move_files |-> move_files, shell_commands |-> shell_commands, error |-> error]

\* provides_names without the test for a directory destination
provides_of_mut(dst, src) == <<dst>>
\* World.add_rsync(dst, srcs) with one source: provides_names, lines 42-45
provides_of(dst, src) ==
    IF EndsWithSep(dst) THEN <<JoinPath(dst, PathName(src))>> ELSE <<dst>>

add_rsync(w, dst, src) ==
    LET id == Len(w.heap) + 1
        op == [Op("rsync", <<src>>) EXCEPT !.requires_names = <<src>>,
                                           !.provides_names = provides_of(dst, src)]
        w1 == [w EXCEPT !.heap = Append(@, op), !.rsync = DictAppend(@, dst, id)]
    IN  add_op(w1, id)

\* World.add_move(dst, src): provides_names stays empty
add_move(w, dst, src) ==
    LET id == Len(w.heap) + 1
        op == [Op("mv", <<src>>) EXCEPT !.requires_names = <<src>>]
        w1 == [w EXCEPT !.heap = Append(@, op), !.move_files = DictAppend(@, dst, id)]
    IN  add_op(w1, id)

\* World.add_shell(reqs, cmd)
add_shell(w, reqs, cmd) ==
    LET id == Len(w.heap) + 1
        op == [Op("shell", cmd) EXCEPT !.requires_names = reqs]
        w1 == [w EXCEPT !.heap = Append(@, op), !.shell_commands = Append(@, id)]
    IN  add_op(w1, id)

\* the world record written back to the variables
SetWorld(w) ==
    /\ heap' = w.heap
    /\ ops' = w.ops
    /\ pending_ops' = w.pending_ops
    /\ rsync' = w.rsync
    /\ move_files' = w.move_files
    /\ shell_commands' = w.shell_commands
    /\ error' = w.error


(***************************************************************************)
(* World.run: the flush loop.                                              *)
(***************************************************************************)
W_rsync == <<"rsync">>
W_vaP == <<"-vaP">>
W_mv == <<"mv">>

Filter_mut(h, srcs, i) ==
    IF i > Len(srcs) THEN <<>> ELSE <<srcs[i]>>

RECURSIVE Filter(_, _, _)
\* [s for s in srcs if s.ready() and not s.executed]
Filter(h, srcs, i) ==
    IF i > Len(srcs) THEN <<>>
    ELSE (IF ready(h, srcs[i]) /\ ~h[srcs[i]].executed THEN <<srcs[i]>> ELSE <<>>)
         \o Filter(h, srcs, i + 1)

ArgsOf_mut(h, goable, i) ==
    IF i > Len(goable) THEN <<>> ELSE h[goable[i]].args

RECURSIVE ArgsOf(_, _, _)
\* [x for s in goable for x in s.args]
ArgsOf(h, goable, i) ==
    IF i > Len(goable) THEN <<>> ELSE h[goable[i]].args \o ArgsOf(h, goable, i + 1)

\* the command line of one group
rsync_cmd(args, dest) == <<W_rsync, W_vaP>> \o args \o <<dest>>
mv_cmd(args, dest) == <<W_mv>> \o args \o <<dest>>

\* the heap after s.ready() was called on every Op of srcs
CacheAll(h, srcs) ==
    [id \in 1..Len(h) |->
        IF id \in Range(srcs) THEN [h[id] EXCEPT !.ready_ = ready(h, id)] ELSE h[id]]

\* the heap after `s.executed = True` for every s of goable
MarkAll(h, goable) ==
    [id \in 1..Len(h) |->
        IF id \in Range(goable) THEN [h[id] EXCEPT !.executed = TRUE] ELSE h[id]]

\* run, lines 88-90: the loop test and the start of a round
RunHead ==
    /\ pc = "run_head"
    /\ UNCHANGED <<inputvars, routevars, grepvars>>
    /\ IF pending_ops # <<>>
       THEN /\ pc' = "run_rsync"
            /\ executed_ops' = <<>>
            /\ ri' = 1
            /\ rounds' = rounds + 1
       ELSE /\ pc' = "done"
            /\ UNCHANGED <<executed_ops, ri, rounds>>
    /\ UNCHANGED <<schedvars, obj, sink, execlog, error>>

\* one pass of a `for dest, srcs in <dict>.items()` body, lines 92-99, 102-109
RunGroup(dict, word) ==
    LET dest == dict[ri].dest
        srcs == dict[ri].srcs
        h1 == CacheAll(heap, srcs)
        goable == Filter(heap, srcs, 1)
        args == ArgsOf(heap, goable, 1)
        cmd == IF word = W_rsync THEN rsync_cmd(args, dest) ELSE mv_cmd(args, dest)
        w1 == [TheWorld EXCEPT !.heap = MarkAll(h1, goable)]
        w2 == add_shell(w1, args, cmd)
    IN  /\ SetWorld(w2)
        /\ executed_ops' = executed_ops \o goable
        /\ execlog' = execlog \o goable
        /\ ri' = ri + 1
        /\ pc' = IF w2.error # "" THEN "crashed" ELSE pc
        /\ UNCHANGED <<obj, rounds, sink>>

RunRsync ==
    /\ pc = "run_rsync"
    /\ UNCHANGED <<inputvars, routevars, grepvars>>
    /\ IF ri <= Len(rsync)
       THEN RunGroup(rsync, W_rsync)
       ELSE /\ pc' = "run_move"
            /\ ri' = 1
            /\ UNCHANGED <<schedvars, obj, executed_ops, rounds, sink, execlog, error>>

RunMove ==
    /\ pc = "run_move"
    /\ UNCHANGED <<inputvars, routevars, grepvars>>
    /\ IF ri <= Len(move_files)
       THEN RunGroup(move_files, W_mv)
       ELSE /\ pc' = "run_shell"
            /\ ri' = 1
            /\ UNCHANGED <<schedvars, obj, executed_ops, rounds, sink, execlog, error>>

\* one pass of the dry-run loop body, lines 113-118
RunShell ==
    /\ pc = "run_shell"
    /\ UNCHANGED <<inputvars, routevars, grepvars>>
    /\ IF ri <= Len(shell_commands)
       THEN LET cmd == shell_commands[ri]
                h1 == ReadyCache(heap, cmd)
            IN  /\ ri' = ri + 1
                /\ IF ~ready(heap, cmd) \/ heap[cmd].executed
                   THEN /\ heap' = h1
                        /\ UNCHANGED <<sink, executed_ops, execlog>>
                   ELSE /\ sink' = Append(sink, heap[cmd].args)
                        /\ heap' = [h1 EXCEPT ![cmd].executed = TRUE]
                        /\ executed_ops' = Append(executed_ops, cmd)
                        /\ execlog' = Append(execlog, cmd)
                /\ UNCHANGED <<pc, ops, pending_ops, rsync, move_files,
                               shell_commands, obj, rounds, error>>
       ELSE /\ pc' = "run_remove"
            /\ UNCHANGED <<schedvars, obj, executed_ops, ri, rounds, sink,
                           execlog, error>>

\* list.remove(o): the first element equal to o (dataclass equality compares
\* the fields) is dropped; 0 when no element is equal
RemoveIndex(h, pend, o) ==
    IF \E i \in 1..Len(pend) : h[pend[i]] = h[o]
    THEN CHOOSE i \in 1..Len(pend) :
            /\ h[pend[i]] = h[o]
            /\ \A j \in 1..(i - 1) : h[pend[j]] # h[o]
    ELSE 0

DropAt(s, i) == SubSeq(s, 1, i - 1) \o SubSeq(s, i + 1, Len(s))

RemoveAll_mut(h, pend, ex, i) == [pend |-> pend, error |-> ""]

RECURSIVE RemoveAll(_, _, _, _)
\* for o in reversed(executed_ops): self.pending_ops.remove(o)
\* the result is [pend, error]
RemoveAll(h, pend, ex, i) ==
    IF i = 0 THEN [pend |-> pend, error |-> ""]
    ELSE LET k == RemoveIndex(h, pend, ex[i])
         IN  IF k = 0 THEN [pend |-> pend, error |-> "ValueError"]
             ELSE RemoveAll(h, DropAt(pend, k), ex, i - 1)

\* run, lines 127-130: World.var asserts that a routable is active, then the
\* executed Ops leave the pending list
RunRemove ==
    /\ pc = "run_remove"
    /\ UNCHANGED <<inputvars, routevars, grepvars>>
    /\ IF obj = NoObj
       THEN /\ error' = "AssertionError"
            /\ pc' = "crashed"
            /\ UNCHANGED pending_ops
       ELSE LET r == RemoveAll(heap, pending_ops, executed_ops, Len(executed_ops))
            IN  /\ pending_ops' = r.pend
                /\ error' = r.error
                /\ pc' = IF r.error # "" THEN "crashed" ELSE "run_head"
    /\ UNCHANGED <<heap, ops, rsync, move_files, shell_commands, obj, runvars>>


(***************************************************************************)
(* The environment and the routable.                                       *)
(***************************************************************************)
\* the working directory of the process and the files below it
Cwd == <<"/", "w">>
FsFiles == {<<"/", "w", "/", "a">>}
FsDirs == {<<"/", "s">>, <<"/", "f">>}

\* Path(wdir).joinpath(dat): an absolute dat replaces wdir
JoinAbs(wdir, dat) ==
    IF Len(dat) > 0 /\ dat[1] = Sep THEN StripTrail(dat) ELSE JoinPath(wdir, dat)

\* Path.parent
Parent(p) ==
    LET k == LastSep(p, Len(p))
    IN  IF k = 0 THEN <<".">> ELSE IF k = 1 THEN <<Sep>> ELSE SubSeq(p, 1, k - 1)

\* route_file: the type probed under the working directory
InferType(file) ==
    LET p == JoinAbs(Cwd, file)
    IN  IF p \in FsDirs THEN <<"dir">> ELSE IF p \in FsFiles THEN <<"file">> ELSE <<"text">>

\* route_file: the Routable built for one argument
Routable(file) ==
    [src |-> <<>>, dst |-> <<>>, data |-> file, original_data |-> file,
     wdir |-> Cwd, type |-> InferType(file), attr |-> <<>>]

\* dict assignment d[k] = v
Put(d, k, v) == [x \in DOMAIN d \cup {k} |-> IF x = k THEN v ELSE d[x]]

\* World.init_obj_dir_vars
init_obj_dir_vars(o, vs) ==
    IF o.wdir # None /\ o.data # None
    THEN Put(Put(vs, "dir", Parent(JoinAbs(o.wdir, o.data))),
             "file", JoinAbs(o.wdir, o.data))
    ELSE vs

\* the position of the first character c of s, 0 when there is none
RECURSIVE FirstAt(_, _, _)
FirstAt(s, c, i) ==
    IF i > Len(s) THEN 0 ELSE IF s[i] = c THEN i ELSE FirstAt(s, c, i + 1)

\* str.split(c): the pieces of s between the characters c
RECURSIVE Split(_, _)
Split(s, c) ==
    IF FirstAt(s, c, 1) = 0 THEN <<s>>
    ELSE <<SubSeq(s, 1, FirstAt(s, c, 1) - 1)>>
         \o Split(SubSeq(s, FirstAt(s, c, 1) + 1, Len(s)), c)

\* str.partition(c): (head, separator, tail) around the first c
Partition(s, c) ==
    IF FirstAt(s, c, 1) = 0 THEN <<s, <<>>, <<>>>>
    ELSE <<SubSeq(s, 1, FirstAt(s, c, 1) - 1), <<c>>,
           SubSeq(s, FirstAt(s, c, 1) + 1, Len(s))>>

\* the sequence through which the comprehension of set_var("attr") runs:
\* `for o in strvalue.split(",") for k, _, v in o.partition("=")` iterates
\* over the three strings of every partition
RECURSIVE AttrParts(_)
AttrParts(items) ==
    IF items = <<>> THEN <<>>
    ELSE Partition(Head(items), "=") \o AttrParts(Tail(items))

\* `k, _, v = part` unpacks a string: it raises ValueError unless the
\* string has exactly three characters
UnpackRaises(parts) == \E i \in 1..Len(parts) : Len(parts[i]) # 3

\* dict assignment on a dict kept as its items in insertion order
DictSet(d, k, v) ==
    IF \E i \in 1..Len(d) : d[i][1] = k
    THEN [i \in 1..Len(d) |-> IF d[i][1] = k THEN <<k, v>> ELSE d[i]]
    ELSE Append(d, <<k, v>>)

\* {k: v for ... for k, _, v in ...}: every part gives the entry
\* part[0]: part[2]
RECURSIVE AttrDict(_, _)
AttrDict(parts, d) ==
    IF parts = <<>> THEN d
    ELSE AttrDict(Tail(parts), DictSet(d, <<Head(parts)[1]>>, <<Head(parts)[3]>>))

\* ",".join(f"{k}={v}" for k, v in attr.items())
RECURSIVE attr_str(_)
attr_str(d) ==
    IF d = <<>> THEN <<>>
    ELSE d[1][1] \o <<"=">> \o d[1][2]
         \o (IF Len(d) > 1 THEN <<",">> \o attr_str(Tail(d)) ELSE <<>>)

\* World.next_obj: the variables after the routable became active
next_obj(o, vs) ==
    LET v1 == init_obj_dir_vars(o, vs)
        v2 == Put(v1, "attr", attr_str(o.attr))
        v3 == Put(v2, "data", o.data)
        v4 == Put(v3, "dst", o.dst)
        v5 == Put(v4, "type", o.type)
        v6 == Put(v5, "src", o.src)
    IN  Put(v6, "wdir", o.wdir)

\* set_var that lets a write of data reach original_data
set_var_mut(o, vs, key, value) ==
    [obj |-> IF key = "data" THEN [o EXCEPT !.data = value, !.original_data = value]
             ELSE o,
     vars |-> Put(vs, key, value), error |-> ""]
\* World.set_var: [obj, vars, error]; error names the exception raised, and
\* then nothing was assigned
set_var(o, vs, key, value) ==
    LET strvalue == IF value = None THEN <<>> ELSE value
        done(o1, v1) == [obj |-> o1, vars |-> Put(v1, key, value), error |-> ""]
    IN  CASE key = "attr" ->
                IF UnpackRaises(AttrParts(Split(strvalue, ",")))
                THEN [obj |-> o, vars |-> vs, error |-> "ValueError"]
                ELSE done([o EXCEPT !.attr = AttrDict(AttrParts(Split(strvalue, ",")), <<>>)], vs)
          [] key = "data" -> done([o EXCEPT !.data = strvalue], vs)
          [] key = "dst" -> done([o EXCEPT !.dst = strvalue], vs)
          [] key = "type" -> done([o EXCEPT !.type = strvalue], vs)
          [] key = "src" -> done([o EXCEPT !.src = strvalue], vs)
          [] key = "wdir" ->
                IF value # None /\ value # <<>>
                THEN done([o EXCEPT !.wdir = StripTrail(value)],
                          init_obj_dir_vars([o EXCEPT !.wdir = StripTrail(value)], vs))
                ELSE done([o EXCEPT !.wdir = None], vs)
          [] OTHER -> done(o, vs)

\* World.var that reads the variable table
var_mut(o, vs, key, default) == IF key \in DOMAIN vs THEN vs[key] ELSE default
\* World.var
var(o, vs, key, default) ==
    CASE key = "attr" -> attr_str(o.attr)
      [] key = "data" -> o.data
      [] key = "dst" -> o.dst
      [] key = "type" -> o.type
      [] key = "src" -> o.src
      [] key = "wdir" -> o.wdir
      [] OTHER -> IF key \in DOMAIN vs THEN vs[key] ELSE default

(***************************************************************************)
(* The commands and the conditions.                                        *)
(***************************************************************************)
NEXT_COMMAND == "NEXT_COMMAND"
NEXT_RULE == "NEXT_RULE"
STOP == "STOP"

\* a command of the program; the expressions of the model are ExprLiteral,
\* whose eval is the stored string
Cmd(op, v, arg) == [op |-> op, var |-> v, arg |-> arg]

RECURSIVE fnmatchcase(_, _)
\* fnmatch.fnmatchcase for patterns of literal characters, `?` and `*`
fnmatchcase(dat, pat) ==
    IF pat = <<>> THEN dat = <<>>
    ELSE IF pat[1] = "*"
         THEN \/ fnmatchcase(dat, Tail(pat))
              \/ dat # <<>> /\ fnmatchcase(Tail(dat), pat)
    ELSE /\ dat # <<>>
         /\ pat[1] = "?" \/ pat[1] = dat[1]
         /\ fnmatchcase(Tail(dat), Tail(pat))

\* GlobCondition.check without a datasource
GlobCondition_check(o, pat) ==
    o.data # None /\ pat # None /\ fnmatchcase(o.data, pat)

\* World.stat_path raises FileNotFoundError when Path(p).stat() finds nothing
StatRaises(cache, path) == path \notin cache /\ path \notin FsFiles \cup FsDirs

\* StatFileTypeCondition("file").check once the stat is there: S_ISREG
StatFileTypeCondition_check(path) == path \in FsFiles

\* RuleCommand.run
RuleCommand_run == NEXT_COMMAND

\* a Stop that returns NEXT_COMMAND
StopAction_run_mut == NEXT_COMMAND
\* StopAction.run
StopAction_run == STOP

\* ConditionCommand.run, from the value of condition.check
ConditionCommand_run(b) == IF b THEN NEXT_COMMAND ELSE NEXT_RULE

\* a route that takes every command for a Rule
IsRuleCommand_mut(c) == TRUE
\* a route that also runs a Stop it should pass over
IsRuleCommand_mut_stop(c) == c.op \in {"rule", "stop"}
\* isinstance(cmd, RuleCommand)
IsRuleCommand(c) == c.op = "rule"

\* cmd.run(world, value): [w, obj, vars, stat_cache, res]; w.error names the
\* exception when the command raises
CmdRun(c) ==
    LET base == [w |-> TheWorld, obj |-> obj, vars |-> vars,
                 stat_cache |-> stat_cache, res |-> NEXT_COMMAND]
    IN  CASE c.op = "rule" -> [base EXCEPT !.res = RuleCommand_run]
          [] c.op = "stop" -> [base EXCEPT !.res = StopAction_run]
          [] c.op = "glob" ->
                [base EXCEPT !.res = ConditionCommand_run(GlobCondition_check(obj, c.arg))]
          [] c.op = "isfile" ->
                LET path == var(obj, vars, "file", obj.data)
                IN  IF StatRaises(stat_cache, path)
                    THEN [base EXCEPT !.w.error = "FileNotFoundError"]
                    ELSE [base EXCEPT
                            !.stat_cache = @ \cup {path},
                            !.res = ConditionCommand_run(StatFileTypeCondition_check(path))]
          [] c.op = "setvar" ->
                LET r == set_var(obj, vars, c.var, c.arg)
                IN  [base EXCEPT !.obj = r.obj, !.vars = r.vars, !.w.error = r.error]
          [] c.op = "copyto" ->
                IF obj.data # None /\ c.arg # None
                THEN [base EXCEPT !.w = add_rsync(TheWorld, c.arg, obj.data)]
                ELSE base
          [] c.op = "moveto" ->
                IF obj.data # None /\ c.arg # None
                THEN [base EXCEPT !.w = add_move(TheWorld, c.arg, obj.data)]
                ELSE base

\* the result of CmdRun written back to the variables
SetRun(r) ==
    /\ SetWorld(r.w)
    /\ obj' = r.obj
    /\ vars' = r.vars
    /\ stat_cache' = r.stat_cache

(***************************************************************************)
(* The streaming multi-grep: GrepCondition._matcher, _check_all, check.    *)
(***************************************************************************)
\* from_offset / to_offset = None
NoOffset == -1

P_a == <<"a">>
P_b == <<"b">>
L_a == <<"a", "\n">>
L_b == <<"b", "\n">>
\* a line whose read fails: iterating the file object raises OSError there
L_err == <<"EIO">>
F_1 == <<"f">>
\* the content of a path that open() cannot open
NoFile == <<<<"ENOENT">>>>

\* a GrepCondition: const says that its pattern is an ExprLiteral, whose
\* value is pat; lo and hi are from_offset and to_offset
Site(const, pat, lo, hi) == [const |-> const, pat |-> pat, lo |-> lo, hi |-> hi]

\* no Grep.check call yet; preg is the cache and parked the position of the
\* parked reader (-1: none) when the call started, eof says that the call
\* left its loop through the else-branch
NoCall ==
    [site |-> 0, path |-> <<>>, pat |-> <<>>, res |-> "", cached |-> FALSE,
     opened |-> FALSE, frompos |-> 0, topos |-> 0, preg |-> <<>>, parked |-> -1,
     eof |-> FALSE]

Min(a, b) == IF a < b THEN a ELSE b
Max(a, b) == IF a > b THEN a ELSE b

\* bool(p.search(line)) for a pattern of literal bytes
Contains(line, pat) ==
    \E k \in 0..(Len(line) - Len(pat)) : SubSeq(line, k + 1, k + Len(pat)) = pat

\* line[:n] for n >= 0
SliceTo(line, n) == SubSeq(line, 1, Min(n, Len(line)))

\* line[k:]
SliceFrom(line, k) ==
    IF k >= 0 THEN SubSeq(line, k + 1, Len(line))
    ELSE SubSeq(line, Max(Len(line) + k, 0) + 1, Len(line))

\* _matcher, line 264: done as computed at the top of the loop
MatcherDone(site, seen) == site.hi = NoOffset \/ seen > site.hi

\* a _matcher generator suspended at its yield; fed lists the lines sent
NoMatcher == [live |-> FALSE, seen |-> 0, hit |-> FALSE, fed |-> <<>>]
MatcherInit == [live |-> TRUE, seen |-> 0, hit |-> FALSE, fed |-> <<>>]

\* matcher.send(line), lines 265-291 and 264: [m, hit, done], and what was
\* searched: p.search ran on `cut` bytes of the line after its first `skip`
MatcherSend(site, pat, m, line, lineno) ==
    LET insetCond == /\ site.lo # NoOffset
                     /\ site.lo < m.seen
                     /\ m.seen + Len(line) < site.lo
        inset == site.lo - m.seen
        line1 == IF insetCond THEN SliceFrom(line, inset) ELSE line
        seen1 == IF insetCond THEN m.seen + inset ELSE m.seen
        search == /\ site.lo = NoOffset \/ seen1 <= site.lo
                  /\ site.hi = NoOffset \/ site.hi > seen1
        end == IF site.hi = NoOffset THEN -1 ELSE 1 + site.hi - seen1
        seen2 == IF search THEN seen1 + Len(line1) ELSE seen1
        line2 == IF end >= 0 /\ Len(line1) > end THEN SliceTo(line1, end) ELSE line1
        hit2 == IF search THEN Contains(line2, pat) ELSE m.hit
    IN  [m |-> [live |-> TRUE, seen |-> seen2, hit |-> hit2,
                fed |-> Append(m.fed, lineno)],
         hit |-> hit2,
         done |-> MatcherDone(site, seen2),
         search |-> search,
         skip |-> IF insetCond THEN inset ELSE 0,
         cut |-> Len(line2)]

\* dict-of-dict helpers for World.greps and the write counts
Has(g, i, dat) == dat \in DOMAIN g[i]
PutIn(g, i, dat, v) == [g EXCEPT ![i] = Put(@, dat, v)]
Bump(wc, i, dat) ==
    [wc EXCEPT ![i] = Put(@, dat, IF dat \in DOMAIN @ THEN @[dat] + 1 ELSE 1)]

\* a _check_all generator: regexen maps the live sites to their matchers
NoChk == [live |-> FALSE, regexen |-> <<>>, misses |-> {}]
\* check's locals when no loop is followed: matcher = None, chk = None
NoScan == [matcher |-> NoMatcher, chk |-> NoChk]

\* _check_all, lines 300-306: one matcher per constant site undecided for dat
ChkInit(g, dat) ==
    [live |-> TRUE,
     regexen |-> [i \in {j \in 1..Len(sites) : sites[j].const /\ ~Has(g, j, dat)}
                    |-> MatcherInit],
     misses |-> {}]

RECURSIVE WriteAll(_, _, _, _, _)
\* the cache g and the counts wc after `world.greps[i][dat] = v(i)` for the
\* sites of todo; tv are the sites written True
WriteAll(g, wc, dat, todo, tv) ==
    IF todo = {} THEN [g |-> g, wc |-> wc]
    ELSE LET i == CHOOSE j \in todo : TRUE
         IN  WriteAll(PutIn(g, i, dat, i \in tv), Bump(wc, i, dat), dat,
                      todo \ {i}, tv)

\* chk.send(line), lines 311-325: [chk, g, wc, alive]
ChkSend(chk, g, wc, dat, line, lineno) ==
    LET live == DOMAIN chk.regexen
        r == [i \in live |->
                MatcherSend(sites[i], sites[i].pat, chk.regexen[i], line, lineno)]
        matched == {i \in live : r[i].hit}
        missed == {i \in live : ~r[i].hit /\ r[i].done}
        rest == live \ (matched \cup missed)
        w == WriteAll(g, wc, dat, matched \cup missed, matched)
    IN  [chk |-> [live |-> TRUE,
                  regexen |-> [i \in rest |-> r[i].m],
                  misses |-> chk.misses \cup missed],
         g |-> w.g, wc |-> w.wc, alive |-> rest # {}]

\* a close that records nothing
ChkClose_mut(chk, g, wc, dat) == [g |-> g, wc |-> wc]
\* chk.close(), lines 326-331: the sites still pending are marked not found
ChkClose(chk, g, wc, dat) ==
    LET todo == {i \in DOMAIN chk.regexen \cup chk.misses : ~Has(g, i, dat)}
    IN  WriteAll(g, wc, dat, todo, {})

\* a del that leaves the entry in the table
DelRead_mut(rd, dat) == rd
\* del world.reads[dat] when present
DelRead(rd, dat) == [x \in DOMAIN rd \ {dat} |-> rd[x]]

\* the reader is parked: world.reads[dat] = (fh, chk)
ParkRead(rd, dat, fh, chk) == Put(rd, dat, [fh |-> fh, chk |-> chk])

\* check, lines 366-371: the private matcher of a dynamic pattern was sent
\* the line and answered ms: [g, wc, m]
PrivateSend(st, i, dat, ms) ==
    IF ~st.matcher.live THEN [g |-> st.g, wc |-> st.wc, m |-> NoMatcher]
    ELSE [g |-> IF ms.hit THEN PutIn(st.g, i, dat, TRUE) ELSE st.g,
          wc |-> IF ms.hit THEN Bump(st.wc, i, dat) ELSE st.wc,
          m |-> IF ms.hit \/ ms.done THEN NoMatcher ELSE ms.m]

\* check, lines 374-375: chk.close() after StopIteration: [g, wc, chk]
Closed(cc) == [g |-> cc.g, wc |-> cc.wc, chk |-> NoChk]

\* check, lines 372-375: the coalesced scan answered cs: [g, wc, chk]
CoalescedAnswer(cs, dat) ==
    IF cs.alive THEN [g |-> cs.g, wc |-> cs.wc, chk |-> cs.chk]
    ELSE Closed(ChkClose(cs.chk, cs.g, cs.wc, dat))

\* check, lines 372-375: the coalesced scan, when there is one, is sent the
\* line after the private matcher left p: [g, wc, chk]
CoalescedSend(chk, p, dat, line, lineno) ==
    IF ~chk.live THEN [g |-> p.g, wc |-> p.wc, chk |-> NoChk]
    ELSE CoalescedAnswer(ChkSend(chk, p.g, p.wc, dat, line, lineno), dat)

\* check, lines 398-401: the else-branch of the for-loop at the end of file
GrepEof(st, i, dat, own) ==
    LET c == IF st.chk.live THEN ChkClose(st.chk, own.g, own.wc, dat) ELSE own
    IN  [st EXCEPT !.g = c.g, !.wc = c.wc,
                   !.hs[st.fh].closed = TRUE,
                   !.rd = DelRead(@, dat),
                   !.matcher = NoMatcher, !.chk = NoChk, !.eof = TRUE]

\* check, lines 376-381: everything is decided, the file is closed
GrepAllDecided(st, dat, lineno, m, c) ==
    [st EXCEPT !.g = c.g, !.wc = c.wc,
               !.hs[st.fh] = [@ EXCEPT !.pos = lineno, !.closed = TRUE],
               !.rd = DelRead(@, dat),
               !.matcher = m, !.chk = c.chk]

\* check, lines 383-390: this site is decided, the live scan is parked
GrepParked(st, dat, lineno, m, c) ==
    [st EXCEPT !.g = c.g, !.wc = c.wc,
               !.hs[st.fh].pos = lineno,
               !.rd = IF c.chk.live THEN ParkRead(@, dat, st.fh, c.chk) ELSE @,
               !.matcher = m, !.chk = NoChk]

\* check, the state the next pass of the loop starts from
GrepGoOn(st, lineno, m, c) ==
    [st EXCEPT !.g = c.g, !.wc = c.wc, !.hs[st.fh].pos = lineno,
               !.matcher = m, !.chk = c.chk]

RECURSIVE GrepLoop(_, _, _, _)
\* check, lines 376-390: after line lineno left the private matcher m and the
\* coalesced scan c
GrepAfterLine(st, i, patv, dat, lineno, m, c) ==
    IF ~m.live /\ ~c.chk.live THEN GrepAllDecided(st, dat, lineno, m, c)
    ELSE IF Has(c.g, i, dat) THEN GrepParked(st, dat, lineno, m, c)
    ELSE GrepLoop(GrepGoOn(st, lineno, m, c), i, patv, dat)

\* check, lines 366-375: line lineno after the private matcher left p
GrepLine(st, i, patv, dat, lineno, p) ==
    GrepAfterLine(st, i, patv, dat, lineno, p.m,
                  CoalescedSend(st.chk, p, dat, files[dat][lineno], lineno))

\* the cache and the counts after the end of file decided a live private matcher
OwnAtEof(st, i, dat) ==
    IF st.matcher.live
    THEN [g |-> PutIn(st.g, i, dat, FALSE), wc |-> Bump(st.wc, i, dat)]
    ELSE [g |-> st.g, wc |-> st.wc]

\* the line of dat sent at position pos + 1
SendLine(st, i, patv, dat, lineno) ==
    MatcherSend(sites[i], patv, st.matcher, files[dat][lineno], lineno)

\* check, lines 365-401: the loop over the lines left in fh, from the local
\* state st = [g, wc, rd, hs, fh, matcher, chk, err]
GrepLoop(st, i, patv, dat) ==
    IF st.hs[st.fh].pos >= Len(files[dat])
    THEN GrepEof(st, i, dat, OwnAtEof(st, i, dat))
    ELSE IF files[dat][st.hs[st.fh].pos + 1] = L_err
    THEN \* `for line in fh` raises: nothing is closed, nothing is parked
         [st EXCEPT !.err = "OSError"]
    ELSE GrepLine(st, i, patv, dat, st.hs[st.fh].pos + 1,
                  PrivateSend(st, i, dat,
                              SendLine(st, i, patv, dat, st.hs[st.fh].pos + 1)))

\* open(dat, "rb"): a new file object at its first line
OpenFile(hs, dat) == Append(hs, [path |-> dat, pos |-> 0, closed |-> FALSE])

\* whether check finds a parked read to resume, line 350
Resumes(rd, dat) == dat \in DOMAIN rd

\* the local state of check before the loop, lines 343-361
GrepStart(i, dat, resume) ==
    [g |-> greps, wc |-> wcount, rd |-> reads,
     hs |-> IF resume THEN handles ELSE OpenFile(handles, dat),
     fh |-> IF resume THEN reads[dat].fh ELSE Len(handles) + 1,
     matcher |-> IF sites[i].const THEN NoMatcher ELSE MatcherInit,
     chk |-> IF resume THEN reads[dat].chk ELSE ChkInit(greps, dat),
     err |-> "", eof |-> FALSE]

\* check, lines 402-405: what the call returns from the state st after the loop
GrepReturn(i, dat, resume, st0, st) ==
    [g |-> st.g, wc |-> st.wc, rd |-> st.rd, hs |-> st.hs,
     res |-> IF st.err # "" THEN st.err
             ELSE IF ~Has(st.g, i, dat) THEN "KeyError"
             ELSE IF st.g[i][dat] THEN "True" ELSE "False",
     cached |-> FALSE, opened |-> ~resume,
     frompos |-> st0.hs[st0.fh].pos, topos |-> st.hs[st.fh].pos,
     eof |-> st.eof]

\* check returns without a scan
GrepIdle(res, cached) ==
    [g |-> greps, wc |-> wcount, rd |-> reads, hs |-> handles,
     res |-> res, cached |-> cached, opened |-> FALSE, frompos |-> 0, topos |-> 0,
     eof |-> FALSE]

\* check, lines 343-405: the scan of dat from the local state st0
GrepScan(i, patv, dat, resume, st0) ==
    GrepReturn(i, dat, resume, st0, GrepLoop(st0, i, patv, dat))

\* GrepCondition.check of site i on path dat with the pattern value patv,
\* lines 333-405: [g, wc, rd, hs, res, cached, opened, frompos, topos]
GrepCheck(i, patv, dat) ==
    IF patv = None THEN GrepIdle("False", FALSE)
    ELSE IF dat = None THEN GrepIdle("False", FALSE)
    ELSE IF Has(greps, i, dat)
    THEN GrepIdle(IF greps[i][dat] THEN "True" ELSE "False", TRUE)
    ELSE IF ~Resumes(reads, dat) /\ files[dat] = NoFile
    THEN \* open(dat, "rb") raises; the coalesced scan just made is dropped
         GrepIdle("FileNotFoundError", FALSE)
    ELSE GrepScan(i, patv, dat, Resumes(reads, dat),
                  GrepStart(i, dat, Resumes(reads, dat)))

\* the sites a program can hold and the files it can meet
SiteKinds ==
    {Site(c, p, NoOffset, h) : c \in BOOLEAN, p \in {P_a, P_b}, h \in {NoOffset, 4}}
    \ {Site(FALSE, P_b, NoOffset, h) : h \in {NoOffset, 4}}
SiteIds == {1, 2}
Paths == {F_1}
Contents == SeqsUpTo({L_a, L_b, L_err}, MaxLines) \cup {NoFile}
\* the values a dynamic pattern expression evaluates to
DynPats == {P_a, P_b, None}

(***************************************************************************)
(* The session: main, route_command_line_args, route_file, World.route.    *)
(***************************************************************************)
Commands ==
    {Cmd("rule", "", <<>>), Cmd("glob", "", S_a), Cmd("isfile", "", <<>>),
     Cmd("setvar", "data", S_a), Cmd("copyto", "", S_sdir),
     Cmd("moveto", "", S_fdir), Cmd("stop", "", <<>>)}

Programs == SeqsUpTo(Commands, MaxProg)
Data == {S_a, S_sa}
Argvs == SeqsUpTo(Data, MaxArgs)

\* World.__init__
InitWorld ==
    /\ obj = NoObj
    /\ heap = <<>>
    /\ ops = <<>>
    /\ pending_ops = <<>>
    /\ rsync = <<>>
    /\ move_files = <<>>
    /\ shell_commands = <<>>
    /\ executed_ops = <<>>
    /\ ri = 0
    /\ rounds = 0
    /\ sink = <<>>
    /\ execlog = <<>>
    /\ error = ""
    /\ argi = 0
    /\ ci = 0
    /\ mode = NEXT_COMMAND
    /\ vars = <<>>
    /\ stat_cache = {}
    /\ ran = <<>>

\* the grep cache and the resumable-read table of a new session: World.__init__
\* creates neither attribute, Grep.check uses world.greps as a
\* defaultdict(dict) and world.reads as a dict; no file was opened, no cache
\* entry written and no check made
InitGrepState ==
    /\ greps = [i \in DOMAIN sites |-> <<>>]
    /\ reads = <<>>
    /\ handles = <<>>
    /\ wcount = [i \in DOMAIN sites |-> <<>>]
    /\ last = NoCall
    /\ scan = NoScan

\* main: the rules are loaded and the arguments are given
Init ==
    /\ sites = <<>>
    /\ files = <<>>
    /\ InitWorld
    /\ InitGrepState
    /\ rules = <<>>
    /\ program \in Programs
    /\ argv \in Argvs
    /\ pc = "next_obj"

\* a route that keeps the mode the previous pass ended in
route_entry_mut == mode
\* World.route, line 204: the mode a pass starts in
route_entry == NEXT_COMMAND

\* route_command_line_args: the next argument becomes the active routable
\* (route_file, World.next_obj) and World.route starts on it; after the last
\* argument main calls World.run
NextObj ==
    /\ pc = "next_obj"
    /\ IF argi < Len(argv)
       THEN LET o == Routable(argv[argi + 1])
            IN  /\ argi' = argi + 1
                /\ obj' = o
                /\ vars' = next_obj(o, vars)
                /\ mode' = route_entry
                /\ ci' = 1
                /\ ran' = <<>>
                /\ pc' = "route"
       ELSE /\ pc' = "run_head"
            /\ UNCHANGED <<argi, obj, vars, mode, ci, ran>>
    /\ UNCHANGED <<error, schedvars, runvars, inputvars, stat_cache, grepvars>>

\* World.route: one pass of the loop over the commands
RouteStep ==
    /\ pc = "route"
    /\ IF ci > Len(program)
       THEN /\ pc' = "next_obj"
            /\ UNCHANGED <<obj, error, schedvars, ci, mode, vars, stat_cache, ran>>
       ELSE LET c == program[ci]
            IN  CASE mode = NEXT_COMMAND ->
                        LET r == CmdRun(c)
                        IN  /\ SetRun(r)
                            /\ ran' = Append(ran, [ci |-> ci, res |-> r.res])
                            /\ IF r.w.error # ""
                               THEN pc' = "crashed" /\ UNCHANGED <<mode, ci>>
                               ELSE pc' = pc /\ mode' = r.res /\ ci' = ci + 1
                  [] mode = NEXT_RULE ->
                        /\ IF IsRuleCommand(c)
                           THEN LET r == CmdRun(c)
                                IN  /\ SetRun(r)
                                    /\ mode' = r.res
                                    /\ ran' = Append(ran, [ci |-> ci, res |-> r.res])
                           ELSE UNCHANGED <<obj, error, schedvars, mode, vars,
                                            stat_cache, ran>>
                        /\ ci' = ci + 1
                        /\ pc' = pc
                  [] mode = STOP ->
                        /\ pc' = "next_obj"
                        /\ UNCHANGED <<obj, error, schedvars, ci, mode, vars,
                                       stat_cache, ran>>
    /\ UNCHANGED <<runvars, inputvars, argi, grepvars>>

Next == NextObj \/ RouteStep \/ RunHead \/ RunRsync \/ RunMove \/ RunShell \/ RunRemove

Spec == Init /\ [][Next]_allvars

(***************************************************************************)
(* The scheduler driven directly: any sequence of routables, copyto and    *)
(* moveto calls, then the flush.                                           *)
(***************************************************************************)
SchedData == {S_a, S_sa, S_x}
SchedDsts == {S_sdir, S_fdir}

InitSched ==
    /\ sites = <<>>
    /\ files = <<>>
    /\ InitWorld
    /\ InitGrepState
    /\ rules = <<>>
    /\ program = <<>>
    /\ argv = <<>>
    /\ pc = "sched"

\* route_file: a routable becomes active
SchedIngest ==
    /\ pc = "sched"
    /\ \E d \in SchedData :
          /\ obj' = Routable(d)
          /\ vars' = next_obj(Routable(d), vars)
    /\ UNCHANGED <<pc, error, schedvars, runvars, inputvars, argi, ci, mode,
                   stat_cache, ran, grepvars>>

\* the enqueue made by a command, [w, ...] written back
SchedEnqueue(c) ==
    LET r == CmdRun(c)
    IN  /\ SetRun(r)
        /\ pc' = IF r.w.error # "" THEN "crashed" ELSE pc
        /\ UNCHANGED <<runvars, inputvars, argi, ci, mode, ran, grepvars>>

\* CopyToAction.run on the active routable
SchedCopyTo ==
    /\ pc = "sched"
    /\ obj # NoObj
    /\ Len(heap) < MaxOps
    /\ \E dst \in SchedDsts : SchedEnqueue(Cmd("copyto", "", dst))

\* MoveToAction.run on the active routable
SchedMoveTo ==
    /\ pc = "sched"
    /\ obj # NoObj
    /\ Len(heap) < MaxOps
    /\ \E dst \in SchedDsts : SchedEnqueue(Cmd("moveto", "", dst))

\* main: World.run is called
SchedFlush ==
    /\ pc = "sched"
    /\ pc' = "run_head"
    /\ UNCHANGED <<obj, error, schedvars, runvars, inputvars, routevars, grepvars>>

NextSched ==
    \/ SchedIngest \/ SchedCopyTo \/ SchedMoveTo \/ SchedFlush
    \/ RunHead \/ RunRsync \/ RunMove \/ RunShell \/ RunRemove

SpecSched == InitSched /\ [][NextSched]_allvars

(***************************************************************************)
(* The enqueueing commands driven directly: CopyTo and MoveTo with every   *)
(* kind of destination, without a flush.                                   *)
(***************************************************************************)
\* the values a destination expression evaluates to: a directory (trailing
\* separator), a file name, None (a reference to an unset variable)
EnqDsts == {S_sdir, S_fa, None}

\* cmd.run of an enqueueing command c; ran records the command
EnqRun(c) ==
    /\ pc = "sched"
    /\ obj # NoObj
    /\ Len(heap) < MaxOps
    /\ Len(ran) < MaxOps
    /\ SetRun(CmdRun(c))
    /\ pc' = IF CmdRun(c).w.error # "" THEN "crashed" ELSE pc
    /\ ran' = Append(ran, c)
    /\ UNCHANGED <<runvars, inputvars, argi, ci, mode, grepvars>>

\* CopyToAction.run on the active routable
EnqCopyTo == \E dst \in EnqDsts : EnqRun(Cmd("copyto", "", dst))

\* MoveToAction.run on the active routable
EnqMoveTo == \E dst \in EnqDsts : EnqRun(Cmd("moveto", "", dst))

NextEnq == SchedIngest \/ EnqCopyTo \/ EnqMoveTo

SpecEnq == InitSched /\ [][NextEnq]_allvars

(***************************************************************************)
(* The environment driven directly: any sequence of writes through         *)
(* World.set_var (SetVariable, the captures of a Regex match) and of       *)
(* CopyTo and MoveTo on the routables ingested.                            *)
(***************************************************************************)
S_kv == <<"k", "=", "v", ",", "l", "=", "w">>

\* the variables a program writes and the values their right sides give; None
\* is the value of a reference to an unset variable
EnvKeys == {"src", "dst", "data", "type", "wdir", "attr"}
EnvValues(key) ==
    CASE key = "attr" -> {S_kv}
      [] key = "wdir" -> {S_sdir, None}
      [] key = "data" -> {S_x, None}
      [] OTHER -> {S_x}

\* the data of the routables
EnvData == {S_a, S_sa}

\* the names a pattern gives its one group
GroupNames == {"data", "u"}

\* the steps of one session: an ingestion and MaxProg commands
MaxSteps == MaxProg + 1

InitEnv == InitSched

\* cmd.run of a command c on the active routable; ran holds the command run
\* last and ci counts the steps
EnvRun(c) ==
    /\ pc = "sched"
    /\ obj # NoObj
    /\ ci < MaxSteps
    /\ SetRun(CmdRun(c))
    /\ pc' = IF CmdRun(c).w.error # "" THEN "crashed" ELSE pc
    /\ ran' = <<c>>
    /\ ci' = ci + 1
    /\ UNCHANGED <<runvars, inputvars, argi, mode, grepvars>>

\* route_file: a routable becomes active and its route starts
EnvIngest ==
    /\ pc = "sched"
    /\ ci < MaxSteps
    /\ \E d \in EnvData :
          /\ obj' = Routable(d)
          /\ vars' = next_obj(Routable(d), vars)
          /\ ran' = <<Cmd("next_obj", "", d)>>
    /\ ci' = ci + 1
    /\ UNCHANGED <<pc, error, schedvars, runvars, inputvars, argi, mode,
                   stat_cache, grepvars>>

\* SetVariable.run
EnvSetVar ==
    \E key \in EnvKeys : \E value \in EnvValues(key) :
        EnvRun(Cmd("setvar", key, value))

\* RegexCondition.check, lines 156-160, after a match of a pattern with one
\* group named name: group 0 is g0, the group is g (None when it took no
\* part in the match)
Captures(o, vs, name, g0, g) ==
    LET r0 == set_var(o, vs, "0", g0)
        r1 == set_var(r0.obj, r0.vars, "1", g)
    IN  set_var(r1.obj, r1.vars, name, g)

\* ConditionCommand.run of a Regex condition whose pattern matches all of the
\* routable's data, its group the first character or nothing
EnvCapture ==
    /\ pc = "sched"
    /\ obj # NoObj
    /\ ci < MaxSteps
    /\ \E name \in GroupNames, g \in {SubSeq(obj.data, 1, Min(1, Len(obj.data))), None} :
          /\ obj' = Captures(obj, vars, name, obj.data, g).obj
          /\ vars' = Captures(obj, vars, name, obj.data, g).vars
          /\ ran' = <<Cmd("match", name, g)>>
    /\ ci' = ci + 1
    /\ UNCHANGED <<pc, error, schedvars, runvars, inputvars, argi, mode,
                   stat_cache, grepvars>>

\* CopyToAction.run and MoveToAction.run
EnvCopyTo == EnvRun(Cmd("copyto", "", S_sdir))
EnvMoveTo == EnvRun(Cmd("moveto", "", S_sdir))

NextEnv == EnvIngest \/ EnvSetVar \/ EnvCapture \/ EnvCopyTo \/ EnvMoveTo

SpecEnv == InitEnv /\ [][NextEnv]_allvars

(***************************************************************************)
(* The parser's lowering (grammar.py, CommandTree) and the conditions it   *)
(* builds (ast.py).  A parse node carries the name of its grammar rule; a  *)
(* lowered node carries the name of its class.                             *)
(***************************************************************************)
\* Condition.datasource of a condition without a prefix; the absent operand
NoDs == [cls |-> "None"]
ExprLiteral(v) == [cls |-> "ExprLiteral", val |-> v]
VariableReference(v) == [cls |-> "VariableReference", var |-> v]
StringConcatExpr(ps) == [cls |-> "StringConcatExpr", parts |-> ps]
GlobCondition(p) ==
    [cls |-> "GlobCondition", datasource |-> NoDs, pattern |-> p]
RegexCondition(p) ==
    [cls |-> "RegexCondition", datasource |-> NoDs, pattern |-> p]
\* AndCondition and OrCondition
Junction(node, ch) == [cls |-> node, datasource |-> NoDs, children |-> ch]
ConditionCommand(c) == [cls |-> "ConditionCommand", condition |-> c]
SetVariable(v, rhs) == [cls |-> "SetVariable", var |-> v, rhs |-> rhs]
\* an exception leaving a callback of the transformer
Raised(e) == [cls |-> "raise", error |-> e]
\* the first exception among the lowered children, NoDs when there is none
FirstRaised(args) ==
    LET I == {i \in DOMAIN args : args[i].cls = "raise"}
    IN  IF I = {} THEN NoDs
        ELSE args[CHOOSE i \in I : \A j \in I : i <= j]

\* CommandTree.escaped_char: char[1], a plain str and no Token
escaped_char(char) == [cls |-> "str", val |-> <<char[2]>>]

\* a fused list never ends in a Token with the source's fstr
IsText(part) ==
    \/ part.cls = "ExprLiteral"
    \/ part.cls = "Token" /\ part.type = "FEXPR_STRING_CHAR"
IsExpr(part) ==
    part.cls \in {"ExprLiteral", "VariableReference", "StringConcatExpr"}

RECURSIVE Fuse(_, _, _)
\* the loop of CommandTree.fstr over parts[k..]
Fuse(parts, k, fused) ==
    IF k > Len(parts) THEN fused
    ELSE LET part == parts[k]
         IN  IF IsText(part)
             THEN IF fused # <<>> /\ fused[Len(fused)].cls = "ExprLiteral"
                  THEN Fuse(parts, k + 1,
                            [fused EXCEPT ![Len(fused)].val = @ \o part.val])
                  ELSE Fuse(parts, k + 1, Append(fused, ExprLiteral(part.val)))
             ELSE IF IsExpr(part)
             THEN Fuse(parts, k + 1, Append(fused, part))
             ELSE <<Raised("AssertionError")>>

\* CommandTree.fstr
fstr(parts) ==
    LET fused == Fuse(parts, 1, <<>>)
    IN  IF fused # <<>> /\ fused[Len(fused)].cls = "raise"
           THEN fused[Len(fused)]
        ELSE IF Len(fused) = 1 THEN fused[1]
        ELSE IF Len(fused) = 0 THEN ExprLiteral(<<>>)
        ELSE StringConcatExpr(fused)

\* CommandTree.glob
glob(pats) ==
    IF Len(pats) = 1 THEN GlobCondition(pats[1])
    ELSE Junction("OrCondition",
                  [i \in 1..Len(pats) |-> GlobCondition(pats[i])])

\* CommandTree.condition
condition(datasource, cond) == [cond EXCEPT !.datasource = datasource]

\* CommandTree.grep: GrepCondition has two fields and gets one argument
grep(regex) == Raised("TypeError")

\* a lowering that nests every junction as it was written
junctioncondition_mut(lhs, op, rhs) ==
    Junction(IF op = "and" THEN "AndCondition" ELSE "OrCondition",
             <<lhs, rhs>>)
\* CommandTree.junctioncondition with both operands, as the grammar gives them
junctioncondition(lhs, op, rhs) ==
    LET node == IF op = "and" THEN "AndCondition" ELSE "OrCondition"
    IN  IF lhs.cls = node /\ rhs.cls = node
           THEN [lhs EXCEPT !.children = @ \o rhs.children]
        ELSE IF lhs.cls = node
           THEN [lhs EXCEPT !.children = Append(@, rhs)]
        ELSE IF rhs.cls = node
           THEN [rhs EXCEPT !.children = <<lhs>> \o @]
        ELSE Junction(node, <<lhs, rhs>>)

RECURSIVE Lower(_)
\* Transformer.transform: the callbacks applied bottom-up; an exception in a
\* callback ends the parse
Lower(t) ==
    CASE t.rule = "exprliteral" -> ExprLiteral(t.v)
      [] t.rule = "varref" -> VariableReference(t.name)
      [] t.rule = "FEXPR_STRING_CHAR" ->
            [cls |-> "Token", type |-> t.rule, val |-> t.v]
      [] t.rule = "escaped_char" -> escaped_char(t.v)
      [] t.rule = "none" -> NoDs
      [] t.rule = "fstr" ->
            LET ps == [i \in 1..Len(t.parts) |-> Lower(t.parts[i])]
            IN  IF FirstRaised(ps) # NoDs THEN FirstRaised(ps) ELSE fstr(ps)
      [] t.rule = "glob" ->
            LET ps == [i \in 1..Len(t.pats) |-> Lower(t.pats[i])]
            IN  IF FirstRaised(ps) # NoDs THEN FirstRaised(ps) ELSE glob(ps)
      [] t.rule = "match" ->
            LET r == Lower(t.regex)
            IN  IF r.cls = "raise" THEN r ELSE RegexCondition(r)
      [] t.rule = "grep" ->
            LET r == Lower(t.regex)
            IN  IF r.cls = "raise" THEN r ELSE grep(r)
      [] t.rule = "condition" ->
            LET as == <<Lower(t.ds), Lower(t.body)>>
            IN  IF FirstRaised(as) # NoDs THEN FirstRaised(as)
                ELSE condition(as[1], as[2])
      [] t.rule = "junctioncondition" ->
            LET as == <<Lower(t.lhs), Lower(t.rhs)>>
            IN  IF FirstRaised(as) # NoDs THEN FirstRaised(as)
                ELSE junctioncondition(as[1], t.op, as[2])
      [] t.rule = "conditioncommand" ->
            LET c == Lower(t.condition)
            IN  IF c.cls = "raise" THEN c ELSE ConditionCommand(c)
      [] t.rule = "setvar" ->
            LET r == Lower(t.rhs)
            IN  IF r.cls = "raise" THEN r ELSE SetVariable(t.var, r)

RECURSIVE Eval(_, _, _)
\* Expr.eval of ExprLiteral, VariableReference and StringConcatExpr
Eval(e, o, vs) ==
    CASE e.cls = "ExprLiteral" -> e.val
      [] e.cls = "VariableReference" -> var(o, vs, e.var, None)
      [] e.cls = "StringConcatExpr" ->
            IF e.parts = <<>> THEN <<>>
            ELSE LET v == Eval(e.parts[1], o, vs)
                 IN  (IF v = None THEN <<>> ELSE v)
                        \o Eval(StringConcatExpr(Tail(e.parts)), o, vs)

\* Condition.get_str_data
get_str_data(c, o, vs) ==
    IF c.datasource = NoDs THEN o.data ELSE Eval(c.datasource, o, vs)

\* the regular expressions of the model: one named group around a literal
R_u == <<"(", "?", "P", "<", "u", ">", "a", ")">>
R_data == <<"(", "?", "P", "<", "d", "a", "t", "a", ">", "/", "s", ")">>
\* re.compile(pat).match(dat) for these: the group's name and text, or no match
re_match(pat, dat) ==
    LET name == IF pat = R_u THEN "u" ELSE "data"
        lit == IF pat = R_u THEN <<"a">> ELSE <<"/", "s">>
    IN  IF Len(dat) >= Len(lit) /\ SubSeq(dat, 1, Len(lit)) = lit
        THEN [m |-> TRUE, name |-> name, g |-> lit]
        ELSE [m |-> FALSE]

\* a generator that all() and any() drain to the end
Stops_mut(res, v) == FALSE
\* all() stops at the first false element, any() at the first true one
Stops(res, v) == res = v

RECURSIVE check(_, _)
RECURSIVE CheckChildren(_, _, _, _)
\* Condition.check on st = [obj, vars, log, res]; log lists the leaf checks
\* made, in order, with the data each one tested
check(c, st) ==
    CASE c.cls = "GlobCondition" ->
            LET dat == get_str_data(c, st.obj, st.vars)
                pat == Eval(c.pattern, st.obj, st.vars)
                res == dat # None /\ pat # None /\ fnmatchcase(dat, pat)
            IN  [st EXCEPT !.res = res,
                           !.log = Append(@, [c |-> c, dat |-> dat,
                                              res |-> res])]
      [] c.cls = "RegexCondition" ->
            LET dat == get_str_data(c, st.obj, st.vars)
                pat == Eval(c.pattern, st.obj, st.vars)
                m == IF dat = None \/ pat = None THEN [m |-> FALSE]
                     ELSE re_match(pat, dat)
                w == IF m.m THEN Captures(st.obj, st.vars, m.name, m.g, m.g)
                     ELSE [obj |-> st.obj, vars |-> st.vars]
            IN  [obj |-> w.obj, vars |-> w.vars, res |-> m.m,
                 log |-> Append(st.log, [c |-> c, dat |-> dat, res |-> m.m])]
      [] c.cls = "AndCondition" -> CheckChildren(c.children, st, 1, FALSE)
      [] c.cls = "OrCondition" -> CheckChildren(c.children, st, 1, TRUE)

\* all(c.check() for c in children) with v = FALSE, any(...) with v = TRUE,
\* from child k on
CheckChildren(children, st, k, v) ==
    IF k > Len(children) THEN [st EXCEPT !.res = ~v]
    ELSE LET r == check(children[k], st)
         IN  IF Stops(r.res, v) THEN r
             ELSE LET rest == CheckChildren(children, r, k + 1, v)
                  IN  [rest EXCEPT !.res = IF r.res = v THEN v ELSE @]

\* the rule texts of the model, as the parse trees lark hands to CommandTree
BOOLEANOPERATION == {"and", "or"}
Prefixes == {[rule |-> "none"], [rule |-> "exprliteral", v |-> S_a]}
GlobPats == {[rule |-> "exprliteral", v |-> p] : p \in {S_a, S_sa}}
Regexes ==
    {[rule |-> "fstr", parts |-> <<[rule |-> "FEXPR_STRING_CHAR", v |-> r]>>] :
        r \in {R_u, R_data}}
Leaves ==
    {[rule |-> "glob", pats |-> ps] :
        ps \in SeqsUpTo(GlobPats, MaxArgs) \ {<<>>}}
    \cup {[rule |-> "match", regex |-> r] : r \in Regexes}
    \cup {[rule |-> "grep", regex |-> r] : r \in Regexes}
Atoms == {[rule |-> "condition", ds |-> d, body |-> b] :
            d \in Prefixes, b \in Leaves}
\* `lhs op rhs`, either side an atom or a parenthesised condition
Pairs(S) ==
    {[rule |-> "junctioncondition", lhs |-> l, op |-> o, rhs |-> r] :
        l \in S, o \in BOOLEANOPERATION, r \in S}
\* the atoms that the nested conditions are made of
NestAtoms ==
    {[rule |-> "condition", ds |-> [rule |-> "none"],
      body |-> [rule |-> "glob", pats |-> <<[rule |-> "exprliteral",
                                             v |-> S_a]>>]],
     [rule |-> "condition", ds |-> [rule |-> "exprliteral", v |-> S_a],
      body |-> [rule |-> "glob",
                pats |-> <<[rule |-> "exprliteral", v |-> S_sa],
                           [rule |-> "exprliteral", v |-> S_a]>>]],
     [rule |-> "condition", ds |-> [rule |-> "none"],
      body |-> [rule |-> "match",
                regex |-> [rule |-> "fstr",
                           parts |-> <<[rule |-> "FEXPR_STRING_CHAR",
                                        v |-> R_u]>>]]]}
Conditions ==
    Atoms \cup Pairs(Atoms) \cup Pairs(NestAtoms \cup Pairs(NestAtoms))
\* the pieces of an f-string: a literal run, an escaped character, {bareword},
\* {$data}, {"a"} and {"a{$data}"}
FstrPieces ==
    {[rule |-> "FEXPR_STRING_CHAR", v |-> S_a],
     [rule |-> "escaped_char", v |-> <<"\\", "n">>],
     [rule |-> "exprliteral", v |-> S_x],
     [rule |-> "varref", name |-> "data"],
     [rule |-> "fstr", parts |-> <<[rule |-> "FEXPR_STRING_CHAR",
                                    v |-> S_a]>>],
     [rule |-> "fstr", parts |-> <<[rule |-> "FEXPR_STRING_CHAR", v |-> S_a],
                                   [rule |-> "varref", name |-> "data"]>>]}
Fstrings ==
    {[rule |-> "fstr", parts |-> ps] : ps \in SeqsUpTo(FstrPieces, MaxProg)}
Rules ==
    {<<[rule |-> "conditioncommand", condition |-> c]>> : c \in Conditions}
    \cup {<<[rule |-> "setvar", var |-> "u", rhs |-> f]>> : f \in Fstrings}

\* load_rules has read the rule text; nothing is parsed yet
InitParse ==
    /\ sites = <<>>
    /\ files = <<>>
    /\ InitWorld
    /\ InitGrepState
    /\ rules \in Rules
    /\ program = <<>>
    /\ argv = <<>>
    /\ pc = "parse"

\* parse_commands: the transformer lowers the parse; an exception ends main
Parse ==
    /\ pc = "parse"
    /\ LET cmds == [i \in 1..Len(rules) |-> Lower(rules[i])]
       IN  IF FirstRaised(cmds) # NoDs
           THEN /\ program' = <<>>
                /\ error' = FirstRaised(cmds).error
                /\ pc' = "crashed"
           ELSE /\ program' = cmds
                /\ error' = error
                /\ pc' = "sched"
    /\ UNCHANGED <<obj, schedvars, runvars, argv, rules, routevars, grepvars>>

\* ConditionCommand.run of the parsed rule
CondRun ==
    /\ pc = "sched"
    /\ obj # NoObj
    /\ ci < MaxSteps
    /\ program # <<>>
    /\ program[1].cls = "ConditionCommand"
    /\ LET r == check(program[1].condition,
                      [obj |-> obj, vars |-> vars, log |-> <<>>,
                       res |-> FALSE])
       IN  /\ obj' = r.obj
           /\ vars' = r.vars
           /\ ran' = <<[op |-> "check", log |-> r.log,
                        res |-> IF r.res THEN NEXT_COMMAND ELSE NEXT_RULE]>>
    /\ ci' = ci + 1
    /\ UNCHANGED <<pc, error, schedvars, runvars, inputvars, argi, mode,
                   stat_cache, grepvars>>

\* SetVariable.run of the parsed rule
SetVarRun ==
    /\ pc = "sched"
    /\ obj # NoObj
    /\ ci < MaxSteps
    /\ program # <<>>
    /\ program[1].cls = "SetVariable"
    /\ LET r == set_var(obj, vars, program[1].var,
                        Eval(program[1].rhs, obj, vars))
       IN  /\ obj' = r.obj
           /\ vars' = r.vars
           /\ error' = r.error
           /\ pc' = IF r.error # "" THEN "crashed" ELSE pc
           /\ ran' = <<[op |-> "setvar", log |-> <<>>, res |-> NEXT_COMMAND]>>
    /\ ci' = ci + 1
    /\ UNCHANGED <<schedvars, runvars, inputvars, argi, mode, stat_cache,
                   grepvars>>

NextParse == Parse \/ EnvIngest \/ CondRun \/ SetVarRun

SpecParse == InitParse /\ [][NextParse]_allvars

(***************************************************************************)
(* The grep engine driven directly: any sequence of Grep.check calls of    *)
(* the sites on the files; World.greps is a defaultdict(dict) and           *)
(* World.reads a dict.                                                     *)
(***************************************************************************)
InitGrep ==
    /\ sites \in [SiteIds -> SiteKinds]
    /\ files \in [Paths -> Contents]
    /\ InitWorld
    /\ InitGrepState
    /\ rules = <<>>
    /\ program = <<>>
    /\ argv = <<>>
    /\ pc = "grep"

\* the exceptions that leave Grep.check
GrepRaises == {"KeyError", "OSError", "FileNotFoundError"}

\* the result r of Grep.check written back to the variables; last records
\* the call
SetGrep(i, patv, dat, r) ==
    /\ greps' = r.g
    /\ wcount' = r.wc
    /\ reads' = r.rd
    /\ handles' = r.hs
    /\ last' = [site |-> i, path |-> dat, pat |-> patv, res |-> r.res,
                cached |-> r.cached, opened |-> r.opened,
                frompos |-> r.frompos, topos |-> r.topos, eof |-> r.eof,
                preg |-> greps,
                parked |-> IF dat \in DOMAIN reads
                           THEN handles[reads[dat].fh].pos ELSE -1]
    /\ error' = IF r.res \in GrepRaises THEN r.res ELSE error
    /\ pc' = IF r.res \in GrepRaises THEN "crashed" ELSE pc
    /\ scan' = scan

\* ConditionCommand.run reaches Grep.check of a site on a path; an exception
\* leaves check, route and main
DoGrepCheck ==
    /\ pc = "grep"
    /\ \E i \in DOMAIN sites, dat \in Paths \cup {None} :
       \E patv \in (IF sites[i].const THEN {sites[i].pat} ELSE DynPats) :
          SetGrep(i, patv, dat, GrepCheck(i, patv, dat))
    /\ UNCHANGED <<obj, schedvars, runvars, inputvars, routevars, sites, files>>

NextGrep == DoGrepCheck

SpecGrep == InitGrep /\ [][NextGrep]_allvars

(***************************************************************************)
(* One Grep.check of a single site, its loop followed line by line: what   *)
(* each matcher.send searched and answered is kept in ran.                 *)
(***************************************************************************)
\* the ranges _range gives a site: `>lo` and `<hi`
MatchSites ==
    {Site(c, P_a, lo, hi) : c \in BOOLEAN, lo \in {NoOffset, 1, 2, 3},
                            hi \in {NoOffset, 1, 3, 4, 5}}
\* lines of two and of three bytes, so that a bound can fall inside a line
L_ba == <<"b", "a", "\n">>
MatchContents == SeqsUpTo({L_a, L_b, L_ba}, MaxLines)

RECURSIVE LineStart(_, _)
\* the offset in the file of the first byte of line n
LineStart(content, n) ==
    IF n <= 1 THEN 0 ELSE LineStart(content, n - 1) + Len(content[n - 1])

\* check, lines 333-361: the cache has no entry, the file was opened, the
\* coalesced scan and the private matcher of a dynamic pattern were started
InitMatch ==
    /\ sites \in [{1} -> MatchSites]
    /\ files \in [Paths -> MatchContents]
    /\ InitWorld
    /\ rules = <<>>
    /\ greps = [i \in DOMAIN sites |-> <<>>]
    /\ wcount = [i \in DOMAIN sites |-> <<>>]
    /\ reads = <<>>
    /\ last = NoCall
    /\ handles = OpenFile(<<>>, F_1)
    /\ scan = [matcher |-> IF sites[1].const THEN NoMatcher ELSE MatcherInit,
               chk |-> ChkInit([i \in DOMAIN sites |-> <<>>], F_1)]
    /\ program = <<>>
    /\ argv = <<>>
    /\ pc = "scan"

\* check's local state at the top of a pass of its loop
ScanState ==
    [g |-> greps, wc |-> wcount, rd |-> reads, hs |-> handles, fh |-> 1,
     matcher |-> scan.matcher, chk |-> scan.chk, err |-> "", eof |-> FALSE]

\* the loop was left with the local state st
ScanSet(st, left) ==
    /\ greps' = st.g
    /\ wcount' = st.wc
    /\ reads' = st.rd
    /\ handles' = st.hs
    /\ scan' = [matcher |-> st.matcher, chk |-> st.chk]
    /\ pc' = IF left THEN "return" ELSE "scan"

\* what the site's own matcher did with line lineno: the private matcher of
\* a dynamic site, the one the coalesced scan holds for a constant site
OwnSend(lineno) ==
    LET m == IF sites[1].const THEN scan.chk.regexen[1] ELSE scan.matcher
        r == MatcherSend(sites[1], sites[1].pat, m, files[F_1][lineno], lineno)
    IN  [lineno |-> lineno, off |-> LineStart(files[F_1], lineno),
         len |-> Len(files[F_1][lineno]), seen |-> m.seen, seen2 |-> r.m.seen,
         search |-> r.search, skip |-> r.skip, cut |-> r.cut,
         hit |-> r.hit, done |-> r.done]

\* check, lines 365-390: one pass of `for line in fh`
ScanLine ==
    /\ pc = "scan"
    /\ handles[1].pos < Len(files[F_1])
    /\ LET st == ScanState
           lineno == handles[1].pos + 1
           p == PrivateSend(st, 1, F_1,
                            SendLine(st, 1, sites[1].pat, F_1, lineno))
           c == CoalescedSend(st.chk, p, F_1, files[F_1][lineno], lineno)
       IN  /\ IF ~p.m.live /\ ~c.chk.live
              THEN ScanSet(GrepAllDecided(st, F_1, lineno, p.m, c), TRUE)
              ELSE IF Has(c.g, 1, F_1)
              THEN ScanSet(GrepParked(st, F_1, lineno, p.m, c), TRUE)
              ELSE ScanSet(GrepGoOn(st, lineno, p.m, c), FALSE)
           /\ ran' = Append(ran, OwnSend(lineno))
    /\ UNCHANGED <<obj, error, schedvars, runvars, inputvars, argi, ci, mode,
                   vars, stat_cache, sites, files, last>>

\* check, lines 391-401: the file ended
ScanEof ==
    /\ pc = "scan"
    /\ handles[1].pos >= Len(files[F_1])
    /\ ScanSet(GrepEof(ScanState, 1, F_1, OwnAtEof(ScanState, 1, F_1)), TRUE)
    /\ UNCHANGED <<obj, error, schedvars, runvars, inputvars, routevars,
                   sites, files, last>>

NextMatch == ScanLine \/ ScanEof

SpecMatch == InitMatch /\ [][NextMatch]_allvars

(***************************************************************************)
(* The properties.                                                         *)
(***************************************************************************)
\* the last element of a non-empty sequence
Last(s) == s[Len(s)]

\* C1: once Stop has run for a routable, no later command of the program is
\* run for that routable: a Stop that ran returned STOP and is the last
\* command in the log of the routable, and route leaves the program there.
C1_StopEndsRouting ==
    /\ \A k \in 1..Len(ran) :
          program[ran[k].ci].op = "stop" => ran[k].res = STOP /\ k = Len(ran)
    /\ (pc = "route" /\ mode = STOP) =>
          ran # <<>> /\ program[Last(ran).ci].op = "stop"

\* a routable whose routing ended at a Stop that has commands after it
C1_Witness ==
    /\ pc = "next_obj"
    /\ ran # <<>>
    /\ program[Last(ran).ci].op = "stop"
    /\ Last(ran).ci < Len(program)
    /\ Len(ran) > 1

\* the least rule command after position j of the program, 0 when none
NextRuleAfter(j) ==
    IF \E n \in (j + 1)..Len(program) : program[n].op = "rule"
    THEN CHOOSE n \in (j + 1)..Len(program) :
            /\ program[n].op = "rule"
            /\ \A x \in (j + 1)..(n - 1) : program[x].op # "rule"
    ELSE 0

\* the log of the routable after a condition at log position k failed
C2_Resumes(k) ==
    LET nr == NextRuleAfter(ran[k].ci)
    IN  /\ k < Len(ran) =>
              nr # 0 /\ ran[k + 1].ci = nr /\ ran[k + 1].res = NEXT_COMMAND
        /\ k + 1 < Len(ran) => ran[k + 2].ci = nr + 1
        /\ (k = Len(ran) /\ pc # "route") => nr = 0
        /\ (k + 1 = Len(ran) /\ pc # "route") => nr = Len(program)

\* a command passed over while the mode is NEXT_RULE has no effect
C2_Skip ==
    (pc = "route" /\ mode = NEXT_RULE /\ ci <= Len(program)
        /\ program[ci].op # "rule")
    => UNCHANGED <<obj, error, mode, vars, stat_cache, ran, schedvars, runvars>>

\* C2: when a condition evaluates to false, every command up to the next
\* Rule is skipped without being run or having any effect, and execution
\* resumes with that Rule, which returns NEXT_COMMAND so that the command
\* after it is the next one run.
C2_SkipToNextRule ==
    /\ [](\A k \in 1..Len(ran) : ran[k].res = NEXT_RULE => C2_Resumes(k))
    /\ [][C2_Skip]_allvars

\* a routable routed to the end: a condition failed, the enqueuing command
\* after it was skipped (nothing is enqueued) and the Rule after that ran
C2_Witness ==
    /\ pc = "next_obj"
    /\ Len(program) = 3
    /\ program[1].op = "glob"
    /\ program[2].op = "copyto"
    /\ program[3].op = "rule"
    /\ ran = <<[ci |-> 1, res |-> NEXT_RULE], [ci |-> 3, res |-> NEXT_COMMAND]>>
    /\ heap = <<>>

\* every enqueued Op has an empty requires_op: add_op raises on the only
\* path that fills it
NoRequires == \A id \in Range(ops) : heap[id].requires_op = <<>>

\* C3: for every Op emitted to the shell sink, every Op in its requires_op
\* has already been marked executed before it.
C3_TopologicalEmission ==
    \A k \in 1..Len(execlog) :
        \A r \in Range(heap[execlog[k]].requires_op) :
            \E j \in 1..(k - 1) : execlog[j] = r

\* the command word and the destination of the group an Op was filed under
WordOf(id) == IF heap[id].type = "rsync" THEN W_rsync ELSE W_mv
DestsOf(id) ==
    LET dict == IF heap[id].type = "rsync" THEN rsync ELSE move_files
    IN  {dict[i].dest : i \in {j \in 1..Len(dict) : id \in Range(dict[j].srcs)}}

\* the positions in the sink of the commands that carry the Op id
CmdsOf(id) ==
    {k \in 1..Len(sink) :
        /\ sink[k][1] = WordOf(id)
        /\ Last(sink[k]) \in DestsOf(id)
        /\ \E x \in 2..(Len(sink[k]) - 1) : <<sink[k][x]>> = heap[id].args}

\* C4: when an rsync Op P provides a name that another enqueued Op C
\* requires, the command of P is emitted strictly before the command of C.
C4_ProducerBeforeConsumer ==
    pc = "done" =>
        \A P \in Range(ops), C \in Range(ops) :
            (/\ P # C
             /\ heap[P].type = "rsync"
             /\ heap[C].type \in {"rsync", "mv"}
             /\ Overlap(heap[P], heap[C]))
            => /\ CmdsOf(P) # {}
               /\ CmdsOf(C) # {}
               /\ \A kp \in CmdsOf(P), kc \in CmdsOf(C) : kp < kc

\* C5: World.run terminates for every set of Ops that can be enqueued: the
\* first round executes every pending Op, so the loop is left after it with
\* nothing pending, without an exception.
C5_RunTerminates ==
    /\ rounds <= 1
    /\ (pc = "run_head" /\ rounds = 1) => pending_ops = <<>>
    /\ pc = "done" =>
          pending_ops = <<>> /\ \A id \in Range(ops) : heap[id].executed
    /\ pc = "crashed" => rounds = 0

\* a flush of a copy, a move and their commands that ended after one round
C5_Witness ==
    /\ pc = "done"
    /\ rounds = 1
    /\ Len(ops) >= 5
    /\ \E id \in Range(ops) : heap[id].type = "rsync"
    /\ \E id \in Range(ops) : heap[id].type = "mv"

\* C6: an error raised while routing one routable aborts only that
\* routable: the session ends only after every argument was routed and the
\* scheduler was flushed.
C6_ErrorAbortsOnlyRoutable ==
    pc \in {"done", "crashed"} => (pc = "done" /\ argi = Len(argv))

\* the last Grep.check call had a cache entry for its site and path
LastWasCached == last.site # 0 /\ Has(last.preg, last.site, last.path)

\* the last Grep.check call went to the file
LastScanned ==
    /\ last.site # 0
    /\ ~last.cached
    /\ last.pat # None
    /\ last.path # None
    /\ last.res # "FileNotFoundError"

\* C7: a cache entry G[(S,P)] is assigned at most once and never changes
\* afterwards, and once it is set every later S.check on P returns that
\* stored value without opening or reading the file.
C7_CacheWriteOnce ==
    /\ \A i \in DOMAIN wcount : \A dat \in DOMAIN wcount[i] : wcount[i][dat] <= 1
    /\ last.site # 0 =>
          \A i \in DOMAIN last.preg : \A dat \in DOMAIN last.preg[i] :
              Has(greps, i, dat) /\ greps[i][dat] = last.preg[i][dat]
    /\ LastWasCached =>
          /\ last.res = IF last.preg[last.site][last.path] THEN "True" ELSE "False"
          /\ ~last.opened
          /\ last.topos = last.frompos

\* C8: within one session each input file is opened and read at most once,
\* whatever the number of Grep conditions and the order of their checks.
C8_FileOpenedOnce ==
    \A dat \in Paths :
        Cardinality({h \in 1..Len(handles) : handles[h].path = dat}) <= 1

RECURSIVE DecidedAt(_, _, _, _, _)
\* the first line from line k on at which the matcher m of a site reports a
\* hit or done, 0 when the file ends or a read fails before
DecidedAt(site, pat, m, content, k) ==
    IF k > Len(content) THEN 0
    ELSE IF content[k] = L_err THEN 0
    ELSE LET r == MatcherSend(site, pat, m, content[k], k)
         IN  IF r.hit \/ r.done THEN k
             ELSE DecidedAt(site, pat, r.m, content, k + 1)

\* the line at which site i gets its answer on dat: a coalesced matcher
\* reads from the first line, a private one from the line after `from`
OwnLine(i, patv, dat, from) ==
    DecidedAt(sites[i], patv, MatcherInit, files[dat],
              IF sites[i].const THEN 1 ELSE from + 1)

\* some other coalesced site is still undecided after line k of dat
OthersLive(g, i, dat, k) ==
    \E j \in DOMAIN sites :
        /\ j # i
        /\ sites[j].const
        /\ ~Has(g, j, dat)
        /\ OwnLine(j, sites[j].pat, dat, 0) \notin 1..k

\* C9: when a Grep.check gets its own answer at line k of a file while other
\* coalesced sites are still undecided, it returns after consuming exactly k
\* lines and parks the reader and the coalesced scan; the next check of an
\* undecided site on the path resumes that reader at line k+1, so no line is
\* fed to a matcher twice.
C9_ParkAndResume ==
    /\ LastScanned =>
          LET k == OwnLine(last.site, last.pat, last.path, last.frompos)
          IN  (k # 0 /\ OthersLive(last.preg, last.site, last.path, k)) =>
                 /\ last.res \in {"True", "False"}
                 /\ last.topos = k
                 /\ Resumes(reads, last.path)
                 /\ handles[reads[last.path].fh].pos = k
    /\ (LastScanned /\ last.parked >= 0) =>
          ~last.opened /\ last.frompos = last.parked
    /\ \A dat \in DOMAIN reads :
          \A i \in DOMAIN reads[dat].chk.regexen :
              reads[dat].chk.regexen[i].fed
                  = [n \in 1..handles[reads[dat].fh].pos |-> n]

\* C10: a site with neither a lower nor an upper bound never reports done
\* before the end of the file: it is recorded true whenever any line of the
\* file matches.
C10_UnboundedScansAll ==
    \A i \in DOMAIN sites : \A dat \in Paths :
        (/\ sites[i].const
         /\ sites[i].lo = NoOffset
         /\ sites[i].hi = NoOffset
         /\ Has(greps, i, dat)
         /\ \E n \in 1..Len(files[dat]) : Contains(files[dat][n], sites[i].pat))
        => greps[i][dat]

\* the file objects that are open
OpenHandles == {h \in 1..Len(handles) : ~handles[h].closed}

\* the file objects held by the resumable-read table
ParkedHandles == {reads[dat].fh : dat \in DOMAIN reads}

\* C11: between Grep.check calls a file reader is open if and only if its
\* path has an entry in the resumable-read table that holds it; the path of
\* a closed reader has no entry that holds it.
C11_OpenIffParked ==
    pc = "grep" =>
        /\ OpenHandles = ParkedHandles
        /\ \A dat \in DOMAIN reads : handles[reads[dat].fh].path = dat
        /\ \A h \in 1..Len(handles) :
              handles[h].closed => handles[h].path \notin DOMAIN reads

\* a check returned with the reader parked in the middle of the file
C11_Witness ==
    /\ pc = "grep"
    /\ OpenHandles # {}
    /\ \E h \in OpenHandles : handles[h].pos \in 1..(Len(files[handles[h].path]) - 1)

\* C12: every reader opened by Grep.check is released on every exit path,
\* also when the check aborts with an error in the middle of a scan: no
\* reader stays open without being parked in the resumable-read table.
C12_ReaderReleased == OpenHandles \subseteq ParkedHandles

\* the positions in the sink of the commands of one kind to one destination
GroupCmds(word, dest) ==
    {k \in 1..Len(sink) : sink[k][1] = word /\ Last(sink[k]) = dest}

\* the Ops of a group that were ready and not executed when the round began:
\* no Op is executed before the first round, so an Op is ready then exactly
\* when it requires no Op
FusedOps(srcs) ==
    SelectSeq(srcs, LAMBDA id : heap[id].requires_op = <<>>)

RECURSIVE ArgsConcat(_)
ArgsConcat(ids) ==
    IF ids = <<>> THEN <<>> ELSE heap[Head(ids)].args \o ArgsConcat(Tail(ids))

\* the group dict[i] was fused into exactly one command made of the head
\* words, the args of its ready Ops and the destination
FusedInto(dict, i, head) ==
    /\ Cardinality(GroupCmds(head[1], dict[i].dest)) = 1
    /\ \A k \in GroupCmds(head[1], dict[i].dest) :
          sink[k] = head \o ArgsConcat(FusedOps(dict[i].srcs)) \o <<dict[i].dest>>
    /\ \A id \in Range(FusedOps(dict[i].srcs)) : heap[id].executed

\* C13: in one round of World.run all ready, not yet executed copy Ops with
\* the same destination are fused into exactly one `rsync -vaP SRC... DST`
\* whose sources are the args of those Ops, and all such move Ops into
\* exactly one `mv SRC... DST`.
C13_FusedPerDestination ==
    (pc = "done" /\ rounds = 1) =>
        /\ \A i \in 1..Len(rsync) : FusedInto(rsync, i, <<W_rsync, W_vaP>>)
        /\ \A i \in 1..Len(move_files) : FusedInto(move_files, i, <<W_mv>>)

\* a round that fused two copies to one destination and emitted a move
C13_Witness ==
    /\ pc = "done"
    /\ rounds = 1
    /\ \E i \in 1..Len(rsync) :
          /\ Len(rsync[i].srcs) = 2
          /\ \E k \in 1..Len(sink) : sink[k][1] = W_rsync /\ Len(sink[k]) = 5
    /\ \E k \in 1..Len(sink) : sink[k][1] = W_mv

\* the position of an Op in the order of enqueueing, 0 when it was not enqueued
EnqueuedAt(id) ==
    IF id \in Range(ops) THEN CHOOSE i \in 1..Len(ops) : ops[i] = id ELSE 0

\* C14: World.run emits the Ops in dependency order, and two Ops that no
\* dependency orders are emitted in the order they were enqueued, whatever
\* their destinations and whether they are copies or moves.
C14_InsertionOrder ==
    pc = "done" =>
        \A A \in Range(ops), B \in Range(ops) :
            (/\ heap[A].type \in {"rsync", "mv"}
             /\ heap[B].type \in {"rsync", "mv"}
             /\ EnqueuedAt(A) < EnqueuedAt(B)
             /\ A \notin Range(heap[B].requires_op)
             /\ B \notin Range(heap[A].requires_op))
            => \E ka \in CmdsOf(A), kb \in CmdsOf(B) : ka <= kb

\* the step ran a command of kind op
Ran(op) == Len(ran') = Len(ran) + 1 /\ Last(ran').op = op

\* the step created exactly one Op of the given type for the routable's data
\* and filed it under dst in dict; the Op is enqueued unless add_op raised
Enqueued(type, dict, dictnew, dst, provides) ==
    /\ Len(heap') = Len(heap) + 1
    /\ SubSeq(heap', 1, Len(heap)) = heap
    /\ Last(heap').type = type
    /\ Last(heap').args = <<obj.data>>
    /\ Last(heap').requires_names = <<obj.data>>
    /\ Last(heap').provides_names = provides
    /\ dictnew = DictAppend(dict, dst, Len(heap'))
    /\ error' = "" => /\ ops' = Append(ops, Len(heap'))
                      /\ pending_ops' = Append(pending_ops, Len(heap'))

\* the step enqueued nothing
NothingEnqueued == UNCHANGED schedvars

\* provides_names as the specification gives them
ProvidesSpec(dst, src) ==
    IF dst[Len(dst)] = Sep THEN <<JoinPath(dst, PathName(src))>> ELSE <<dst>>

C16_MoveToEnqueues ==
    [][Ran("moveto") =>
         IF obj.data = None \/ Last(ran').arg = None
         THEN NothingEnqueued
         ELSE /\ Enqueued("mv", move_files, move_files', Last(ran').arg,
                          ProvidesSpec(Last(ran').arg, obj.data))
              /\ rsync' = rsync
              /\ shell_commands' = shell_commands]_allvars

\* the reserved names of the environment
Reserved == {"src", "dst", "data", "type", "wdir", "attr"}

\* the field of the routable o behind the reserved name k, attr serialized
FieldOf(o, k) ==
    CASE k = "src" -> o.src
      [] k = "dst" -> o.dst
      [] k = "data" -> o.data
      [] k = "type" -> o.type
      [] k = "wdir" -> o.wdir
      [] k = "attr" -> attr_str(o.attr)

\* C17: at all times of a session, for every reserved name k of src, dst,
\* data, type, wdir, attr, World.var(k) returns the current value of the
\* field k of the active routable (attr serialized as k=v pairs), after any
\* sequence of set_var and next_obj calls.
C17_ReservedProjection ==
    obj # NoObj =>
        \A k \in Reserved : var(obj, vars, k, None) = FieldOf(obj, k)

\* data and wdir were written and the variable table no longer holds what
\* the routable holds
C17_Witness ==
    /\ obj # NoObj
    /\ pc = "sched"
    /\ vars["data"] # obj.data
    /\ vars["wdir"] # obj.wdir
    /\ obj.wdir # Cwd

\* the step wrote the reserved name k through the environment
Wrote(k) ==
    /\ ci' = ci + 1
    /\ ran'[1].op \in {"setvar", "match"}
    /\ ran'[1].var = k

\* the step made a routable active
Ingested == ci' = ci + 1 /\ ran'[1].op = "next_obj"

\* the derived variables are those of the routable's wdir and data
Derived(o, vs) ==
    /\ vs["file"] = JoinAbs(o.wdir, o.data)
    /\ vs["dir"] = Parent(JoinAbs(o.wdir, o.data))

\* C18: after every write of wdir or of data through the environment, and
\* after next_obj, file = wdir/data and dir = parent(wdir/data) for the
\* current wdir and data of the routable.
C18_DerivedRecomputed ==
    [][((Wrote("wdir") \/ Wrote("data") \/ Ingested)
        /\ error' = "" /\ obj'.wdir # None)
       => Derived(obj', vars')]_allvars

\* the mapping the specification gives for a string of k=v items
RECURSIVE AttrSpec(_)
AttrSpec(items) ==
    IF items = <<>> THEN <<>>
    ELSE <<<<Partition(Head(items), "=")[1], Partition(Head(items), "=")[3]>>>>
         \o AttrSpec(Tail(items))

\* C19: a write of attr with a string k1=v1,k2=v2 (distinct keys) sets the
\* attr mapping of the routable to {k1: v1, k2: v2}, every item split at its
\* first `=`, and a read of attr that follows returns the same string.
C19_AttrRoundTrip ==
    [][(Wrote("attr") /\ ran'[1].op = "setvar" /\ ran'[1].arg = S_kv)
       => /\ error' = ""
          /\ obj'.attr = AttrSpec(Split(S_kv, ","))
          /\ var(obj', vars', "attr", None) = S_kv]_allvars

\* C20: original_data of a routable is never modified by a command or a
\* write through the environment: after any sequence of SetVar (data
\* included), Regex captures, CopyTo and MoveTo it is the data the routable
\* was created with.
C20_OriginalDataKept ==
    [][/\ Ingested => obj'.original_data = ran'[1].arg
       /\ (ci' = ci + 1 /\ ~Ingested) => obj'.original_data = obj.original_data]_allvars

\* a move was enqueued, a capture named data and then a SetVar rewrote
\* data, and data differs from original_data
C20_Witness ==
    /\ obj # NoObj
    /\ obj.data # obj.original_data
    /\ ran = <<Cmd("setvar", "data", S_x)>>
    /\ "1" \in DOMAIN vars
    /\ move_files # <<>>

\* the positions of the program passed over after the condition at position j
\* failed: up to the next Rule, or to the end when there is none
SkippedAfter(j) ==
    IF NextRuleAfter(j) = 0 THEN (j + 1)..Len(program)
    ELSE (j + 1)..(NextRuleAfter(j) - 1)

\* C27: a Stop in a skipped region (mode NEXT_RULE) has no effect: it is not
\* run, it does not end the pass, and the commands from the next Rule on
\* still run for the routable.
C27_SkippedStopIgnored ==
    /\ [](\A k \in 1..Len(ran) : \A j \in SkippedAfter(ran[k].ci) :
            (ran[k].res = NEXT_RULE /\ program[j].op = "stop")
            => /\ \A n \in 1..Len(ran) : ran[n].ci # j
               /\ (pc # "route" /\ NextRuleAfter(j) # 0)
                  => \E n \in 1..Len(ran) : ran[n].ci = NextRuleAfter(j))
    /\ [][(pc = "route" /\ mode = NEXT_RULE /\ ci <= Len(program)
             /\ program[ci].op = "stop")
           => (pc' = "route" /\ mode' = NEXT_RULE /\ ci' = ci + 1)]_allvars

\* a pass in which a condition failed, the Stop after it was passed over and
\* the Rule after the Stop ran
C27_Witness ==
    /\ pc = "next_obj"
    /\ Len(program) = 3
    /\ program[1].op = "glob"
    /\ program[2].op = "stop"
    /\ program[3].op = "rule"
    /\ ran = <<[ci |-> 1, res |-> NEXT_RULE], [ci |-> 3, res |-> NEXT_COMMAND]>>

\* C28: every call of World.route starts in mode NEXT_COMMAND whatever mode
\* the pass of the previous routable ended in: the first command of the
\* program runs for every routable.
C28_RouteStartsFresh ==
    /\ (pc = "route" /\ ci = 1) => mode = NEXT_COMMAND
    /\ (pc = "route" /\ ci > 1) => (ran # <<>> /\ ran[1].ci = 1)

\* the second routable ran the first command of a program whose first
\* command is a Stop, which ended the pass of the first routable
C28_Witness ==
    /\ pc = "route"
    /\ argi = 2
    /\ ci = 2
    /\ program[1].op = "stop"
    /\ ran = <<[ci |-> 1, res |-> STOP]>>

\* the step created the Op New, whose provides_names overlap the
\* requires_names of the enqueued Op O
EnqueuedOver(New, O) ==
    /\ Len(heap') = Len(heap) + 1
    /\ New = Len(heap')
    /\ heap'[New].type \in {"rsync", "mv"}
    /\ O \in Range(ops)
    /\ Overlap(heap'[New], heap[O])

\* C29: World.add_op, for a new Op whose provides_names overlap the
\* requires_names of an enqueued Op O, completes normally: the new Op has O
\* in its requires_op and is appended to the op list and to the pending
\* list; no operation other than the enqueue changes a requires_op.
C29_AddOpLinks ==
    [][/\ \A O \in Range(ops) :
            EnqueuedOver(Len(heap'), O)
            => /\ error' = ""
               /\ O \in Range(heap'[Len(heap')].requires_op)
               /\ ops' = Append(ops, Len(heap'))
               /\ pending_ops' = Append(pending_ops, Len(heap'))
       /\ \A id \in 1..Len(heap) :
            heap'[id].requires_op = heap[id].requires_op]_allvars

\* C30: in every reachable state Op.ready() of an Op is true if and only if
\* every Op in its requires_op is executed; the cached ready_ flag is never
\* true while an Op in requires_op is not executed, and executed never goes
\* from true back to false.
C30_ReadyIffRequiresExecuted ==
    /\ [](\A id \in 1..Len(heap) :
            /\ ready(heap, id) <=> \A r \in Range(heap[id].requires_op) : heap[r].executed
            /\ heap[id].ready_ => \A r \in Range(heap[id].requires_op) : heap[r].executed)
    /\ [][\A id \in 1..Len(heap) : heap[id].executed => heap'[id].executed]_allvars

\* in the middle of a flush: an Op is executed and its ready() answer is
\* cached, the Op of another group is not executed yet
C30_Witness ==
    /\ pc = "run_move"
    /\ \E id \in Range(ops) : heap[id].executed /\ heap[id].ready_
    /\ \E id \in Range(ops) : ~heap[id].executed /\ ~heap[id].ready_ /\ heap[id].type = "mv"

\* C23: StatFileType.check returns false, without raising, when the stat of
\* the candidate path fails, for example because the path does not exist.
C23_StatFailureIsFalse ==
    [][(/\ pc = "route"
        /\ mode = NEXT_COMMAND
        /\ ci <= Len(program)
        /\ program[ci].op = "isfile"
        /\ var(obj, vars, "file", obj.data) \notin FsFiles \cup FsDirs)
       => /\ error' = ""
          /\ pc' = "route"
          /\ Last(ran') = [ci |-> ci, res |-> NEXT_RULE]]_allvars

\* C24: Grep.check returns false, without raising and without leaving a
\* reader or a resumable-read entry behind, when its path is None or the
\* file cannot be opened.
C24_GrepUnreadableIsFalse ==
    (/\ last.site # 0
     /\ last.pat # None
     /\ \/ last.path = None
        \/ /\ last.path # None
           /\ files[last.path] = NoFile
           /\ ~Has(last.preg, last.site, last.path))
    => /\ last.res = "False"
       /\ error = ""
       /\ OpenHandles \subseteq ParkedHandles
       /\ last.path \notin DOMAIN reads

\* a step in which the parsed condition was checked for the active routable
Checked == pc = "sched" /\ ci' = ci + 1 /\ ran'[1].op = "check"
\* the condition is an And or an Or whose children are all leaves
LeafJunction(c) ==
    /\ c.cls \in {"AndCondition", "OrCondition"}
    /\ \A k \in DOMAIN c.children :
          c.children[k].cls \in {"GlobCondition", "RegexCondition"}
\* the variables a capture of the model's regexes writes
CaptureVars == {"0", "1", "u"}
CaptureState == <<obj, [n \in CaptureVars \cap DOMAIN vars |-> vars[n]]>>

\* C21: an And checks its children in the listed order and stops at the first
\* false one, an Or at the first true one: the children checked are a prefix
\* of the list, none before the last checked one decided, a shorter prefix
\* ends in the deciding child, and the result is the deciding value or its
\* opposite; when no Regex child was checked, no capture was written.
C21_ShortCircuit ==
    [][(Checked /\ LeafJunction(program[1].condition)) =>
          LET c == program[1].condition
              v == c.cls = "OrCondition"
              log == ran'[1].log
          IN  /\ Len(log) \in 1..Len(c.children)
              /\ \A k \in DOMAIN log : log[k].c = c.children[k]
              /\ \A k \in 1..(Len(log) - 1) : log[k].res # v
              /\ Len(log) < Len(c.children) => log[Len(log)].res = v
              /\ (ran'[1].res = NEXT_COMMAND) <=> (log[Len(log)].res = v) = v
              /\ (\A k \in DOMAIN log : log[k].c.cls # "RegexCondition")
                    => CaptureState' = CaptureState]_allvars
\* an And of three leaves stopped after its first child, a Regex child after
\* it never ran, and no capture was written
C21_Witness ==
    /\ pc = "sched"
    /\ ran # <<>>
    /\ ran[1].op = "check"
    /\ program[1].condition.cls = "AndCondition"
    /\ LeafJunction(program[1].condition)
    /\ Len(program[1].condition.children) = 3
    /\ program[1].condition.children[2].cls = "RegexCondition"
    /\ Len(ran[1].log) = 1
    /\ ran[1].res = NEXT_RULE
    /\ "u" \notin DOMAIN vars

RECURSIVE SourceLeaves(_)
\* the leaves of a condition of the rule text, in the order written, each with
\* the prefix it was written under, lowered
SourceLeaves(t) ==
    CASE t.rule = "junctioncondition" ->
            SourceLeaves(t.lhs) \o SourceLeaves(t.rhs)
      [] t.rule = "condition" ->
            CASE t.body.rule = "glob" ->
                    [i \in 1..Len(t.body.pats) |->
                        condition(Lower(t.ds),
                                  GlobCondition(Lower(t.body.pats[i])))]
              [] t.body.rule = "match" ->
                    <<condition(Lower(t.ds),
                                RegexCondition(Lower(t.body.regex)))>>
              [] t.body.rule = "grep" ->
                    <<[cls |-> "GrepCondition", datasource |-> Lower(t.ds),
                       pattern |-> Lower(t.body.regex)]>>
RECURSIVE AstLeaves(_)
\* the leaves of a lowered condition, in order
AstLeaves(c) ==
    IF c.cls \in {"AndCondition", "OrCondition"}
    THEN IF c.children = <<>> THEN <<>>
         ELSE AstLeaves(c.children[1])
                \o AstLeaves([c EXCEPT !.children = Tail(@)])
    ELSE <<c>>
\* the rule text is one condition command
IsConditionRule == rules # <<>> /\ rules[1].rule = "conditioncommand"

\* C22: every leaf condition written under a datasource prefix tests the value
\* of that datasource, and one written without a prefix tests the routable's
\* data, for glob with one or several patterns, match and grep, also inside a
\* flattened chain: the parse succeeds, the leaves of the parsed condition carry
\* the datasource they were written under, and every leaf check made tested the
\* value of the datasource of its leaf in the rule text.
C22_DatasourceTested ==
    /\ [][(pc = "parse" /\ pc' # "parse" /\ IsConditionRule) =>
             /\ pc' = "sched"
             /\ AstLeaves(program'[1].condition)
                    = SourceLeaves(rules[1].condition)]_allvars
    /\ [][(Checked /\ IsConditionRule) =>
             LET src == SourceLeaves(rules[1].condition)
                 log == ran'[1].log
             IN  \A k \in DOMAIN log :
                    \E j \in DOMAIN src :
                       /\ src[j].pattern = log[k].c.pattern
                       /\ src[j].cls = log[k].c.cls
                       /\ log[k].dat \in {get_str_data(src[j], obj, vars),
                                          get_str_data(src[j], obj', vars')}
          ]_allvars

RECURSIVE Flat(_)
\* no And is a direct child of an And and no Or of an Or, at any depth
Flat(c) ==
    c.cls \in {"AndCondition", "OrCondition"} =>
        \A k \in DOMAIN c.children :
            c.children[k].cls # c.cls /\ Flat(c.children[k])
\* the leaves without their datasource
Bare(ls) == [i \in DOMAIN ls |-> [cls |-> ls[i].cls, pattern |-> ls[i].pattern]]

\* C25: every And and Or the lowering produces is flat, whatever the nesting
\* and parenthesisation of the rule text and also for the Or of a glob with
\* several patterns, and its leaves are in the order of the rule text.
C25_FlatInOrder ==
    [][(pc = "parse" /\ pc' = "sched" /\ IsConditionRule) =>
          /\ Flat(program'[1].condition)
          /\ Bare(AstLeaves(program'[1].condition))
                = Bare(SourceLeaves(rules[1].condition))]_allvars
\* `(a and b) and (c and d)` and `(a glob /s/a a or ..) or ..` were lowered:
\* a junction of two junctions of its own connective became one node of four
\* or more children
C25_Witness ==
    /\ pc = "sched"
    /\ IsConditionRule
    /\ rules[1].condition.rule = "junctioncondition"
    /\ rules[1].condition.lhs.rule = "junctioncondition"
    /\ rules[1].condition.rhs.rule = "junctioncondition"
    /\ rules[1].condition.lhs.op = rules[1].condition.op
    /\ rules[1].condition.rhs.op = rules[1].condition.op
    /\ program[1].condition.cls = "AndCondition"
    /\ Len(program[1].condition.children) = 4

\* a piece of an f-string that is constant
RECURSIVE ConstantPiece(_)
ConstantPiece(t) ==
    \/ t.rule \in {"FEXPR_STRING_CHAR", "escaped_char", "exprliteral"}
    \/ t.rule = "fstr" /\ \A k \in DOMAIN t.parts : ConstantPiece(t.parts[k])
RECURSIVE PieceText(_)
\* the text a constant piece stands for
PieceText(t) ==
    CASE t.rule = "escaped_char" -> <<t.v[2]>>
      [] t.rule = "fstr" ->
            IF t.parts = <<>> THEN <<>>
            ELSE PieceText(t.parts[1])
                    \o PieceText([t EXCEPT !.parts = Tail(@)])
      [] OTHER -> t.v
RECURSIVE Unfused(_)
\* some StringConcat of the expression has two Literals side by side
Unfused(e) ==
    /\ e.cls = "StringConcatExpr"
    /\ \/ \E k \in 1..(Len(e.parts) - 1) :
             e.parts[k].cls = "ExprLiteral" /\ e.parts[k + 1].cls = "ExprLiteral"
       \/ \E k \in DOMAIN e.parts : Unfused(e.parts[k])
\* the rule text is one assignment
IsSetVarRule == rules # <<>> /\ rules[1].rule = "setvar"

\* C26: an f-string whose pieces are all constant (literal runs, escaped
\* characters, {bareword}, {"..."}) lowers to one Literal holding their
\* concatenation, and no lowered StringConcat has two adjacent Literals.
C26_LiteralsFused ==
    [][(pc = "parse" /\ pc' # "parse" /\ IsSetVarRule) =>
          /\ ConstantPiece(rules[1].rhs) =>
                /\ pc' = "sched"
                /\ program'[1].rhs = ExprLiteral(PieceText(rules[1].rhs))
          /\ pc' = "sched" => ~Unfused(program'[1].rhs)]_allvars

\* the matcher the coalesced scan of dat holds for site j when a check starts:
\* the parked one, or a new one when the file is about to be opened
ScanMatcher(j, dat) ==
    IF Resumes(reads, dat) THEN reads[dat].chk.regexen[j] ELSE MatcherInit
\* the sites the coalesced scan of dat holds when a check starts
ScanSites(dat) ==
    IF Resumes(reads, dat) THEN DOMAIN reads[dat].chk.regexen
    ELSE {j \in DOMAIN sites : sites[j].const /\ ~Has(greps, j, dat)}
\* the position the scan of dat goes on from when a check starts
ScanPos(dat) ==
    IF Resumes(reads, dat) THEN handles[reads[dat].fh].pos ELSE 0
\* site j of the coalesced scan gets no answer from the lines left in dat
UndecidedAtEof(j, dat) ==
    DecidedAt(sites[j], sites[j].pat, ScanMatcher(j, dat), files[dat],
              ScanPos(dat) + 1) = 0

\* C31: when a scan reaches the end of the file, every site still undecided
\* in the coalesced scan of the path is recorded false in the grep cache, the
\* reader is closed and the path has no entry in the resumable-read table.
C31_EofRecordsFalse ==
    [][last'.eof =>
          /\ \A j \in ScanSites(last'.path) :
                UndecidedAtEof(j, last'.path) =>
                    /\ Has(greps', j, last'.path)
                    /\ ~greps'[j][last'.path]
          /\ \A h \in DOMAIN handles' :
                handles'[h].path = last'.path => handles'[h].closed
          /\ ~Resumes(reads', last'.path)]_allvars
\* a resumed scan ran into the end of the file with a site of the coalesced
\* scan still undecided, and the site was recorded false there
C31_Witness ==
    /\ last.eof
    /\ last.parked >= 0
    /\ last.frompos < last.topos
    /\ \E j \in DOMAIN sites :
          /\ sites[j].const
          /\ sites[j].hi # NoOffset
          /\ ~Has(last.preg, j, last.path)
          /\ Has(greps, j, last.path)
          /\ ~greps[j][last.path]
          /\ wcount[j][last.path] = 1

\* every line of the file can be read
Readable(dat) ==
    files[dat] # NoFile /\ \A n \in DOMAIN files[dat] : files[dat][n] # L_err

\* C34: every Grep.check on a path that is not nil and can be read returns a
\* boolean, and when it returns the grep cache holds that boolean for the
\* site and the path, for a constant and for a dynamic pattern, whether the
\* matcher of the site hit, reported done or the file ended.
C34_CheckRecordsAnswer ==
    (/\ last.site # 0
     /\ last.pat # None
     /\ last.path # None
     /\ Readable(last.path))
    => /\ last.res \in {"True", "False"}
       /\ Has(greps, last.site, last.path)
       /\ greps[last.site][last.path] = (last.res = "True")

\* C32: for a site with a lower bound min the matcher attempts no match on
\* bytes below min: a line wholly below min is not searched while the byte
\* counter advances by its length, and a line that straddles min is sliced
\* at the inset, so that only bytes from min on are searched.
C32_NothingBelowMin ==
    sites[1].lo # NoOffset =>
        \A k \in DOMAIN ran :
            /\ (ran[k].search /\ ran[k].cut > 0) =>
                  ran[k].off + ran[k].skip >= sites[1].lo
            /\ ran[k].off + ran[k].len <= sites[1].lo =>
                  ~ran[k].search /\ ran[k].seen2 = ran[k].seen + ran[k].len
            /\ (ran[k].off < sites[1].lo
                    /\ sites[1].lo < ran[k].off + ran[k].len) =>
                  ran[k].skip = sites[1].lo - ran[k].off

\* C33: for a site with an upper bound max the matcher never searches a byte
\* past offset max and reports done as soon as its byte counter exceeds max;
\* the site is then recorded, false unless that line hit, and the loop is
\* left at that line without waiting for the end of the file.
C33_DoneAtMax ==
    sites[1].hi # NoOffset =>
        /\ \A k \in DOMAIN ran :
              /\ (ran[k].search /\ ran[k].cut > 0) =>
                    ran[k].off + ran[k].skip + ran[k].cut - 1 <= sites[1].hi
              /\ ran[k].done <=> ran[k].seen2 > sites[1].hi
        /\ (ran # <<>> /\ ran[Len(ran)].done) =>
              /\ pc = "return"
              /\ handles[1].pos = ran[Len(ran)].lineno
              /\ Has(greps, 1, F_1)
              /\ greps[1][F_1] = ran[Len(ran)].hit

\* the source arguments of the command sink[k]: what stands between the
\* command words and the destination
Sources(k) ==
    SubSeq(sink[k], IF sink[k][1] = W_rsync THEN 3 ELSE 2, Len(sink[k]) - 1)

\* how often x stands in the sequence s
Count(s, x) == Cardinality({n \in DOMAIN s : s[n] = x})

\* how often x was emitted as a source of a command of one kind to one
\* destination, over all rounds
Emitted(word, dest, x) ==
    Cardinality({kn \in GroupCmds(word, dest) \X (1..(MaxOps + 3)) :
                    kn[2] \in DOMAIN Sources(kn[1]) /\ Sources(kn[1])[kn[2]] = x})

\* the args of all the Ops filed under dict[i] were emitted as often as they
\* were enqueued
AllEmittedOnce(dict, i, word) ==
    \A x \in Range(ArgsConcat(dict[i].srcs)) :
        Emitted(word, dict[i].dest, x) = Count(ArgsConcat(dict[i].srcs), x)

\* nothing a group did not enqueue is emitted, and nothing more often
NoneTwice(dict, i, word) ==
    \A k \in GroupCmds(word, dict[i].dest) :
        \A x \in Range(Sources(k)) :
            Emitted(word, dict[i].dest, x) <= Count(ArgsConcat(dict[i].srcs), x)

\* an Op leaves the pending list only in the removal loop of run and only
\* when it was executed, and an Op that left it never returns
LeavesOnce ==
    \A id \in 1..Len(heap) :
        /\ (id \in Range(pending_ops) /\ id \notin Range(pending_ops'))
              => (pc = "run_remove" /\ heap[id].executed)
        /\ id \notin Range(pending_ops) => id \notin Range(pending_ops')

\* C35: every copy or move Op enqueued before World.run contributes its
\* args to exactly one emitted shell command, none dropped and none emitted
\* twice over all rounds, and each Op is removed from the pending list
\* exactly once.
C35_EveryOpEmittedOnce ==
    /\ [](/\ \A i \in 1..Len(rsync) : NoneTwice(rsync, i, W_rsync)
          /\ \A i \in 1..Len(move_files) : NoneTwice(move_files, i, W_mv)
          /\ \A m, n \in 1..Len(pending_ops) :
                pending_ops[m] = pending_ops[n] => m = n
          /\ pc = "done" =>
                /\ \A i \in 1..Len(rsync) : AllEmittedOnce(rsync, i, W_rsync)
                /\ \A i \in 1..Len(move_files) : AllEmittedOnce(move_files, i, W_mv)
                /\ pending_ops = <<>>
                /\ error = "")
    /\ [][LeavesOnce]_allvars

\* a flush of two copies to one destination and a move that emitted each
\* source once and left nothing pending
C35_Witness ==
    /\ pc = "done"
    /\ pending_ops = <<>>
    /\ \E i \in 1..Len(rsync) :
          /\ Len(rsync[i].srcs) = 2
          /\ \A x \in Range(ArgsConcat(rsync[i].srcs)) :
                Emitted(W_rsync, rsync[i].dest, x) >= 1
    /\ \E i \in 1..Len(move_files) :
          \A x \in Range(ArgsConcat(move_files[i].srcs)) :
              Emitted(W_mv, move_files[i].dest, x) = 1

\* C36: every shell command emitted by World.run has at least one source
\* argument: no `rsync -vaP DST` and no `mv DST` is emitted in any round,
\* and a flush with no pending Ops emits nothing.
C36_NoEmptyCommand ==
    /\ \A k \in 1..Len(sink) : Sources(k) # <<>>
    /\ \A id \in Range(shell_commands) :
          Len(heap[id].args) > (IF heap[id].args[1] = W_rsync THEN 3 ELSE 2)
    /\ (pc = "done" /\ ops = <<>>) => (sink = <<>> /\ rounds = 0)

\* a flush that emitted an rsync and a mv, each with a source
C36_Witness ==
    /\ pc = "done"
    /\ rounds = 1
    /\ \E k \in 1..Len(sink) : sink[k][1] = W_rsync /\ Len(Sources(k)) >= 1
    /\ \E k \in 1..Len(sink) : sink[k][1] = W_mv /\ Len(Sources(k)) >= 1

\* a flush with nothing pending that emitted nothing
C36_EmptyFlush == pc = "done" /\ ops = <<>> /\ sink = <<>>
====
